---- MODULE Spec2Model ----
(***************************************************************************)
(* The comparison engine of llm_output_reconciler: the word diff, the line *)
(* diff and the JSON normalisation layer (lib/diff.ts, lib/json-utils.ts). *)
(*                                                                         *)
(* A JavaScript string is modelled as a sequence of one-character strings. *)
(* A JavaScript number that is a ratio of small integers (a similarity, a  *)
(* diff score) is modelled as an exact fraction <<numerator, denominator>>;*)
(* the costs 0.5 and 1.0 of the word diff are counted in half units.       *)
(***************************************************************************)
EXTENDS Integers, Sequences, FiniteSets, TLC

VARIABLES golden, output, diff, lineDiff, normGolden, normOutput, normAgain,
          jsonDiff, selectedModels, apiKeys, tasks, settled, processedResults

\* The state of a call of runComparison.
runVars == <<selectedModels, apiKeys, tasks, settled, processedResults>>

vars ==
  <<golden, output, diff, lineDiff, normGolden, normOutput, normAgain, jsonDiff,
    runVars>>

\* The value of a result variable before its function has been called.
NotCalled == [called |-> FALSE]

\* runComparison has not been called.
NotResolved == [resolved |-> FALSE]
NoRun ==
  /\ selectedModels = <<>>
  /\ apiKeys = <<>>
  /\ tasks = <<>>
  /\ settled = <<>>
  /\ processedResults = NotResolved

-----------------------------------------------------------------------------
(* Characters and strings                                                  *)

SP == " "
NL == "\n"
\* The backquote and the double quote, named (a string of the model cannot
\* hold them).
BT == "BACKQUOTE"
QT == "QUOTE"

\* What the regular expression class \s and String.prototype.trim strip.
IsWhitespace(c) == c \in {SP, NL}

Min(a, b) == IF a <= b THEN a ELSE b
Max(a, b) == IF a >= b THEN a ELSE b

RECURSIVE TrimStart(_)
TrimStart(s) ==
  IF s # <<>> /\ IsWhitespace(Head(s)) THEN TrimStart(Tail(s)) ELSE s

RECURSIVE TrimEnd(_)
TrimEnd(s) ==
  IF s # <<>> /\ IsWhitespace(s[Len(s)])
  THEN TrimEnd(SubSeq(s, 1, Len(s) - 1))
  ELSE s

Trim(s) == TrimEnd(TrimStart(s))

\* The length of the longest prefix of s whose characters all satisfy ws
\* (ws = TRUE: whitespace, ws = FALSE: non-whitespace).
RECURSIVE RunLength(_, _)
RunLength(s, ws) ==
  IF s # <<>> /\ (IsWhitespace(Head(s)) <=> ws)
  THEN 1 + RunLength(Tail(s), ws)
  ELSE 0

\* text.split(/(\s+)/): the pieces between whitespace runs, with the runs
\* themselves (the capture group) kept in between.
RECURSIVE SplitWhitespace(_)
SplitWhitespace(s) ==
  LET n    == RunLength(s, FALSE)
      word == SubSeq(s, 1, n)
      rest == SubSeq(s, n + 1, Len(s))
      w    == RunLength(rest, TRUE)
  IN  IF rest = <<>>
      THEN <<word>>
      ELSE <<word, SubSeq(rest, 1, w)>>
             \o SplitWhitespace(SubSeq(rest, w + 1, Len(rest)))

\* text.split('\n')
RECURSIVE SplitLines(_)
SplitLines(s) ==
  LET n == CHOOSE k \in 0..Len(s) :
             /\ \A i \in 1..k : s[i] # NL
             /\ (k = Len(s) \/ s[k + 1] = NL)
  IN  IF n = Len(s)
      THEN <<s>>
      ELSE <<SubSeq(s, 1, n)>> \o SplitLines(SubSeq(s, n + 2, Len(s)))

\* pieces.join(sep)
RECURSIVE Join(_, _)
Join(pieces, sep) ==
  IF pieces = <<>> THEN <<>>
  ELSE IF Len(pieces) = 1 THEN Head(pieces)
  ELSE Head(pieces) \o sep \o Join(Tail(pieces), sep)

RECURSIVE FilterNonBlank(_)
FilterNonBlank(toks) ==
  IF toks = <<>> THEN <<>>
  ELSE IF Len(Trim(Head(toks))) > 0
       THEN <<Trim(Head(toks))>> \o FilterNonBlank(Tail(toks))
       ELSE FilterNonBlank(Tail(toks))

\* tokenize with the filter of blank tokens forgotten.
tokenizeUnfiltered(text) == SplitWhitespace(Trim(text))

tokenize(text) == FilterNonBlank(SplitWhitespace(Trim(text)))

-----------------------------------------------------------------------------
(* Fractions                                                               *)

Frac(n, d) == <<n, d>>
FracEq(x, y) == x[1] * y[2] = y[1] * x[2]
FracLt(x, y) == x[1] * y[2] < y[1] * x[2]
FracLe(x, y) == x[1] * y[2] <= y[1] * x[2]
FracAdd(x, y) == <<x[1] * y[2] + y[1] * x[2], x[2] * y[2]>>
FracSub(x, y) == <<x[1] * y[2] - y[1] * x[2], x[2] * y[2]>>
Zero == Frac(0, 1)
One == Frac(1, 1)

-----------------------------------------------------------------------------
(* Levenshtein core                                                        *)

Min3(a, b, c) == Min(a, Min(b, c))

\* One row of the table of levenshteinDistance: prev is row i-1, c is
\* str1[i-1], row holds the cells dp[i][0..Len(row)-1] filled so far.
RECURSIVE LevRow(_, _, _, _)
LevRow(prev, c, str2, row) ==
  IF Len(row) = Len(str2) + 1 THEN row
  ELSE LET j == Len(row)
       IN  LevRow(prev, c, str2,
                  Append(row, IF c = str2[j]
                              THEN prev[j]
                              ELSE 1 + Min3(prev[j + 1], row[j], prev[j])))

RECURSIVE LevRows(_, _, _)
LevRows(prev, str1, str2) ==
  IF str1 = <<>> THEN prev
  ELSE LevRows(LevRow(prev, Head(str1), str2, <<prev[1] + 1>>),
               Tail(str1), str2)

levenshteinDistance(str1, str2) ==
  LevRows([j \in 1..(Len(str2) + 1) |-> j - 1], str1, str2)[Len(str2) + 1]

calculateWordSimilarity(word1, word2) ==
  IF word1 = word2 THEN One
  ELSE LET maxLength == Max(Len(word1), Len(word2))
       IN  IF maxLength = 0 THEN One
           ELSE FracSub(One, Frac(levenshteinDistance(word1, word2), maxLength))

calculateLineSimilarity(line1, line2) ==
  LET trimmed1 == Trim(line1)
      trimmed2 == Trim(line2)
  IN  IF trimmed1 = trimmed2 THEN One
      ELSE LET maxLength == Max(Len(trimmed1), Len(trimmed2))
           IN  IF maxLength = 0 THEN One
               ELSE FracSub(One,
                      Frac(levenshteinDistance(trimmed1, trimmed2), maxLength))

\* The thresholds 0.8 (words) and 0.9 (lines).
WordThreshold == Frac(4, 5)
LineThreshold == Frac(9, 10)

-----------------------------------------------------------------------------
(* Word diff engine                                                        *)

EQUAL == "equal"
DELETE == "delete"
INSERT == "insert"
REPLACE == "replace"

\* A cell of the two tables dp and operations of computeWordDiff; the cost
\* is in half units (2 = 1.0, 1 = 0.5).
Cell(cost, op) == [cost |-> cost, op |-> op]

\* WordCell with the branch for equal words forgotten: equal words are then
\* a REPLACE of maximal similarity.
WordCellWithoutEqual(up, left, diag, g, o) ==
  LET isSimilar   == FracLt(WordThreshold, calculateWordSimilarity(g, o))
      deleteCost  == up.cost + 2
      insertCost  == left.cost + 2
      replaceCost == diag.cost + (IF isSimilar THEN 1 ELSE 2)
      minCost     == Min3(deleteCost, insertCost, replaceCost)
  IN  IF minCost = replaceCost THEN Cell(minCost, REPLACE)
      ELSE IF minCost = deleteCost THEN Cell(minCost, DELETE)
      ELSE Cell(minCost, INSERT)

\* WordCell with every replacement costing 1.0 in the table, similar words
\* included.
WordCellFlatReplace(up, left, diag, g, o) ==
  IF g = o THEN Cell(diag.cost, EQUAL)
  ELSE LET deleteCost  == up.cost + 2
           insertCost  == left.cost + 2
           replaceCost == diag.cost + 2
           minCost     == Min3(deleteCost, insertCost, replaceCost)
       IN  IF minCost = replaceCost THEN Cell(minCost, REPLACE)
           ELSE IF minCost = deleteCost THEN Cell(minCost, DELETE)
           ELSE Cell(minCost, INSERT)

\* The cell (i, j), i > 0 and j > 0, from its three neighbours.
WordCell(up, left, diag, g, o) ==
  LET isEqual   == g = o
      isSimilar == FracLt(WordThreshold, calculateWordSimilarity(g, o))
  IN  IF isEqual THEN Cell(diag.cost, EQUAL)
      ELSE LET deleteCost  == up.cost + 2
               insertCost  == left.cost + 2
               replaceCost == diag.cost + (IF isSimilar THEN 1 ELSE 2)
               minCost     == Min3(deleteCost, insertCost, replaceCost)
           IN  IF minCost = replaceCost THEN Cell(minCost, REPLACE)
               ELSE IF minCost = deleteCost THEN Cell(minCost, DELETE)
               ELSE Cell(minCost, INSERT)

\* Row i > 0 of the tables: prev is row i-1, g is golden[i-1].
RECURSIVE WordRow(_, _, _, _)
WordRow(prev, g, out, row) ==
  IF Len(row) = Len(out) + 1 THEN row
  ELSE LET j == Len(row)
       IN  WordRow(prev, g, out,
                   Append(row, WordCell(prev[j + 1], row[j], prev[j], g, out[j])))

\* The rows i..Len(gold) of the tables, given the rows before them.
RECURSIVE WordTable(_, _, _)
WordTable(rows, gold, out) ==
  IF Len(rows) = Len(gold) + 1 THEN rows
  ELSE LET i == Len(rows)
       IN  WordTable(Append(rows,
                       WordRow(rows[i], gold[i], out, <<Cell(2 * i, DELETE)>>)),
                     gold, out)

\* The loop that walks the operations table back from (i, j) to (0, 0),
\* putting each part in front of the ones found before.
RECURSIVE WordBacktrack(_, _, _, _, _, _)
WordBacktrack(table, gold, out, i, j, diffParts) ==
  IF ~(i > 0 \/ j > 0) THEN diffParts
  ELSE LET operation == table[i + 1][j + 1].op
       IN  CASE operation = EQUAL ->
                  WordBacktrack(table, gold, out, i - 1, j - 1,
                    <<[operation |-> EQUAL, text |-> gold[i]]>> \o diffParts)
             [] operation = DELETE ->
                  WordBacktrack(table, gold, out, i - 1, j,
                    <<[operation |-> DELETE, text |-> gold[i]]>> \o diffParts)
             [] operation = INSERT ->
                  WordBacktrack(table, gold, out, i, j - 1,
                    <<[operation |-> INSERT, text |-> out[j]]>> \o diffParts)
             [] operation = REPLACE ->
                  LET isSimilar ==
                        FracLt(WordThreshold,
                               calculateWordSimilarity(gold[i], out[j]))
                      replaceCost == IF isSimilar THEN 1 ELSE 2
                  IN  WordBacktrack(table, gold, out, i - 1, j - 1,
                        <<[operation |-> REPLACE, text |-> out[j],
                           goldenText |-> gold[i], outputText |-> out[j],
                           cost |-> replaceCost]>> \o diffParts)

computeWordDiff(gold, out) ==
  LET row0  == [j \in 1..(Len(out) + 1) |-> Cell(2 * (j - 1), INSERT)]
      table == WordTable(<<row0>>, gold, out)
  IN  WordBacktrack(table, gold, out, Len(gold), Len(out), <<>>)

\* How many parts carry the operation op.
CountOp(diffParts, op) ==
  Cardinality({k \in 1..Len(diffParts) : diffParts[k].operation = op})

\* PartCost with the recorded cost ignored: every REPLACE costs 1.0.
PartCostIgnored(part) == 2

\* part.cost || 1.0, in half units.
PartCost(part) ==
  IF "cost" \in DOMAIN part /\ part.cost # 0 THEN part.cost ELSE 2

RECURSIVE TotalCost(_)
TotalCost(diffParts) ==
  IF diffParts = <<>> THEN 0
  ELSE LET part == Head(diffParts)
       IN  (CASE part.operation = INSERT  -> 2
              [] part.operation = DELETE  -> 2
              [] part.operation = REPLACE -> PartCost(part)
              [] part.operation = EQUAL   -> 0)
           + TotalCost(Tail(diffParts))

\* calculateStats with the score taken over the words of the reference
\* alone (the inserted words left out of the total).
calculateStatsOverGolden(diffParts) ==
  LET added     == CountOp(diffParts, INSERT)
      removed   == CountOp(diffParts, DELETE)
      modified  == CountOp(diffParts, REPLACE)
      equal     == CountOp(diffParts, EQUAL)
      totalCost == TotalCost(diffParts)
      total     == removed + modified + equal
  IN  [diffScore |-> IF total = 0 THEN Zero ELSE Frac(totalCost, 2 * total),
       levenshteinDistance |-> added + removed + modified,
       changes |-> [added |-> added, removed |-> removed,
                    modified |-> modified]]

calculateStats(diffParts) ==
  LET added     == CountOp(diffParts, INSERT)
      removed   == CountOp(diffParts, DELETE)
      modified  == CountOp(diffParts, REPLACE)
      equal     == CountOp(diffParts, EQUAL)
      totalCost == TotalCost(diffParts)
      total     == added + removed + modified + equal
  IN  [diffScore |-> IF total = 0 THEN Zero ELSE Frac(totalCost, 2 * total),
       levenshteinDistance |-> added + removed + modified,
       changes |-> [added |-> added, removed |-> removed,
                    modified |-> modified]]

-----------------------------------------------------------------------------
(* escapeHtml and the HTML of the word diff                                *)
(*                                                                         *)
(* A piece of HTML is modelled by its class (the fixed markup the engine   *)
(* writes around it) and by the texts placed in that markup, in the order  *)
(* they appear; a piece built from other pieces holds their texts.         *)

\* text.replace(/c/g, entity): every c of the text gives way to the
\* entity, in the first half of the text and in the second.
RECURSIVE ReplaceAll(_, _, _)
ReplaceAll(text, c, entity) ==
  IF Len(text) = 0 THEN <<>>
  ELSE IF Len(text) = 1 THEN (IF text[1] = c THEN entity ELSE text)
  ELSE ReplaceAll(SubSeq(text, 1, Len(text) \div 2), c, entity)
       \o ReplaceAll(SubSeq(text, Len(text) \div 2 + 1, Len(text)), c, entity)

AmpEntity  == <<"&", "a", "m", "p", ";">>
LtEntity   == <<"&", "l", "t", ";">>
GtEntity   == <<"&", "g", "t", ";">>
QuotEntity == <<"&", "q", "u", "o", "t", ";">>
AposEntity == <<"&", "#", "3", "9", ";">>

\* escapeHtml that returns its argument.
EscapeNothing(text) == text

escapeHtml(text) ==
  ReplaceAll(ReplaceAll(ReplaceAll(ReplaceAll(ReplaceAll(text,
    "&", AmpEntity), "<", LtEntity), ">", GtEntity), QT, QuotEntity),
    "'", AposEntity)

Html(class, texts) == [class |-> class, texts |-> texts]

\* The texts of a sequence of pieces, in order.
RECURSIVE Texts(_)
Texts(pieces) ==
  IF pieces = <<>> THEN <<>> ELSE Head(pieces).texts \o Texts(Tail(pieces))

\* The callback of diffParts.map in generateHtml.
PartHtml(part) ==
  CASE part.operation = DELETE -> Html("Removed", <<escapeHtml(part.text)>>)
    [] part.operation = INSERT -> Html("Added", <<escapeHtml(part.text)>>)
    [] part.operation = REPLACE ->
         Html("Changed", <<escapeHtml(part.goldenText),
                           escapeHtml(part.goldenText),
                           escapeHtml(part.outputText)>>)
    [] OTHER -> Html("", <<escapeHtml(part.text)>>)

generateHtml(diffParts) ==
  Html("", Texts([n \in 1..Len(diffParts) |-> PartHtml(diffParts[n])]))

calculateDiff(gold, out) ==
  LET goldenWords == tokenize(gold)
      outputWords == tokenize(out)
      diffParts   == computeWordDiff(goldenWords, outputWords)
      stats       == calculateStats(diffParts)
  IN  [called |-> TRUE,
       diffScore |-> stats.diffScore,
       diffHtml |-> generateHtml(diffParts),
       levenshteinDistance |-> stats.levenshteinDistance,
       wordCount |-> [golden |-> Len(goldenWords), output |-> Len(outputWords)],
       similarity |-> FracSub(One, stats.diffScore),
       changes |-> stats.changes]

-----------------------------------------------------------------------------
(* Line diff engine                                                        *)

LineCell(up, left, diag, g, o) ==
  LET isEqual   == Trim(g) = Trim(o)
      isSimilar == FracLt(LineThreshold, calculateLineSimilarity(g, o))
  IN  IF isEqual THEN Cell(diag.cost, EQUAL)
      ELSE LET deleteCost  == up.cost + 2
               insertCost  == left.cost + 2
               replaceCost == diag.cost + (IF isSimilar THEN 1 ELSE 2)
               minCost     == Min3(deleteCost, insertCost, replaceCost)
           IN  IF minCost = replaceCost THEN Cell(minCost, REPLACE)
               ELSE IF minCost = deleteCost THEN Cell(minCost, DELETE)
               ELSE Cell(minCost, INSERT)

RECURSIVE LineRow(_, _, _, _)
LineRow(prev, g, out, row) ==
  IF Len(row) = Len(out) + 1 THEN row
  ELSE LET j == Len(row)
       IN  LineRow(prev, g, out,
                   Append(row, LineCell(prev[j + 1], row[j], prev[j], g, out[j])))

RECURSIVE LineTable(_, _, _)
LineTable(rows, gold, out) ==
  IF Len(rows) = Len(gold) + 1 THEN rows
  ELSE LET i == Len(rows)
       IN  LineTable(Append(rows,
                       LineRow(rows[i], gold[i], out, <<Cell(2 * i, DELETE)>>)),
                     gold, out)

\* The backtracking loop of computeLineDiff; goldenLineNum and outputLineNum
\* always equal i and j.
RECURSIVE LineBacktrack(_, _, _, _, _, _)
LineBacktrack(table, gold, out, i, j, diffParts) ==
  IF ~(i > 0 \/ j > 0) THEN diffParts
  ELSE LET operation == table[i + 1][j + 1].op
       IN  CASE operation = EQUAL ->
                  LineBacktrack(table, gold, out, i - 1, j - 1,
                    <<[operation |-> EQUAL, text |-> gold[i], lineNumber |-> i]>>
                      \o diffParts)
             [] operation = DELETE ->
                  LineBacktrack(table, gold, out, i - 1, j,
                    <<[operation |-> DELETE, text |-> gold[i], lineNumber |-> i]>>
                      \o diffParts)
             [] operation = INSERT ->
                  LineBacktrack(table, gold, out, i, j - 1,
                    <<[operation |-> INSERT, text |-> out[j], lineNumber |-> j]>>
                      \o diffParts)
             [] operation = REPLACE ->
                  \* first the delete part is put in front, then the insert
                  \* part in front of it
                  LineBacktrack(table, gold, out, i - 1, j - 1,
                    <<[operation |-> INSERT, text |-> out[j], lineNumber |-> j],
                      [operation |-> DELETE, text |-> gold[i], lineNumber |-> i]>>
                      \o diffParts)

computeLineDiff(gold, out) ==
  LET row0  == [j \in 1..(Len(out) + 1) |-> Cell(2 * (j - 1), INSERT)]
      table == LineTable(<<row0>>, gold, out)
  IN  LineBacktrack(table, gold, out, Len(gold), Len(out), <<>>)

calculateLineStats(diffParts) ==
  LET added    == CountOp(diffParts, INSERT)
      removed  == CountOp(diffParts, DELETE)
      modified == CountOp(diffParts, REPLACE)
      equal    == CountOp(diffParts, EQUAL)
      total    == added + removed + modified + equal
  IN  [diffScore |-> IF total = 0 THEN Zero
                     ELSE Frac(added + removed + modified, total),
       changes |-> [added |-> added, removed |-> removed,
                    modified |-> modified]]

\* The callback of diffParts.map in generateLineHtml; the line number it
\* writes is the engine's.
LinePartHtml(part) ==
  CASE part.operation = DELETE -> Html("line-delete", <<escapeHtml(part.text)>>)
    [] part.operation = INSERT -> Html("line-insert", <<escapeHtml(part.text)>>)
    [] OTHER -> Html("line-equal", <<escapeHtml(part.text)>>)

generateLineHtml(diffParts) ==
  Html("", Texts([n \in 1..Len(diffParts) |-> LinePartHtml(diffParts[n])]))

calculateLineDiff(gold, out) ==
  LET goldenLines == SplitLines(gold)
      outputLines == SplitLines(out)
      diffParts   == computeLineDiff(goldenLines, outputLines)
      stats       == calculateLineStats(diffParts)
  IN  [called |-> TRUE,
       diffScore |-> stats.diffScore,
       diffHtml |-> generateLineHtml(diffParts),
       lineCount |-> [golden |-> Len(goldenLines), output |-> Len(outputLines)],
       similarity |-> FracSub(One, stats.diffScore),
       changes |-> stats.changes]

-----------------------------------------------------------------------------
(* JSON values                                                             *)
(*                                                                         *)
(* A parsed JSON value is a record whose field k names its kind; a second  *)
(* field holds a boolean (b), a natural number (n), a string (s), the      *)
(* sequence of the elements of an array (items), or the sequence of the    *)
(* properties [key, val] of an object in the order Object.keys lists them  *)
(* (props).  Thrown stands for a TypeError thrown instead of a value being *)
(* returned.                                                               *)

JNull == [k |-> "null"]
JBool(b) == [k |-> "bool", b |-> b]
JNum(n) == [k |-> "num", n |-> n]
JStr(str) == [k |-> "str", s |-> str]
JArr(elems) == [k |-> "arr", items |-> elems]
JObj(props) == [k |-> "obj", props |-> props]
Prop(key, val) == [key |-> key, val |-> val]
Thrown == [k |-> "throw"]
Undefined == [k |-> "undefined"]
\* A function, the value of an inherited property such as constructor.
JFunction == [k |-> "function"]

IsPrimitive(x) == x.k \in {"null", "bool", "num", "str", "undefined"}

\* typeof
TypeOf(x) ==
  CASE x.k = "bool" -> "boolean"
    [] x.k = "num" -> "number"
    [] x.k = "str" -> "string"
    [] x.k = "undefined" -> "undefined"
    [] x.k = "function" -> "function"
    [] OTHER -> "object"

\* The truthiness that ||, && and ! test.
IsTruthy(x) ==
  CASE x.k \in {"null", "undefined"} -> FALSE
    [] x.k = "bool" -> x.b
    [] x.k = "num" -> x.n # 0
    [] x.k = "str" -> x.s # <<>>
    [] OTHER -> TRUE

Digits == <<"0", "1", "2", "3", "4", "5", "6", "7", "8", "9">>
IsDigit(c) == \E d \in 1..10 : Digits[d] = c
DigitValue(c) == (CHOOSE d \in 1..10 : Digits[d] = c) - 1

\* The decimal digits of a natural number.
RECURSIVE NumToChars(_)
NumToChars(n) ==
  IF n < 10 THEN <<Digits[n + 1]>>
  ELSE NumToChars(n \div 10) \o <<Digits[(n % 10) + 1]>>

RECURSIVE CharsToNum(_, _)
CharsToNum(chars, acc) ==
  IF chars = <<>> THEN acc
  ELSE CharsToNum(Tail(chars), 10 * acc + DigitValue(Head(chars)))

\* A key that is an array index ("0", "7", "10", not "07"): Object.keys
\* lists such keys first, in numeric order.
IsIndexKey(key) ==
  /\ key # <<>>
  /\ \A i \in 1..Len(key) : IsDigit(key[i])
  /\ (Len(key) > 1 => key[1] # "0")

\* The characters in the order of the collation localeCompare uses.
Collation ==
  <<NL, SP, ",", ":", QT, "[", "]", "{", "}", BT,
    "0", "1", "2", "3", "4", "5", "6", "7", "8", "9",
    "a", "b", "c", "d", "e", "f", "g", "h", "i", "j", "k", "l", "m",
    "n", "o", "O", "p", "q", "r", "s", "t", "u", "v", "w", "x", "y", "z">>

\* The characters in the order of their code units, which is the order of
\* Array.prototype.sort without a comparator.
CodeUnits ==
  <<NL, SP, QT, ",",
    "0", "1", "2", "3", "4", "5", "6", "7", "8", "9", ":", "O", "[", "]", BT,
    "a", "b", "c", "d", "e", "f", "g", "h", "i", "j", "k", "l", "m",
    "n", "o", "p", "q", "r", "s", "t", "u", "v", "w", "x", "y", "z", "{", "}">>

CharRank(c, order) == CHOOSE r \in 1..Len(order) : order[r] = c

\* The comparison of two strings by the first character they differ in:
\* negative, zero or positive.
RECURSIVE CompareStrings(_, _, _)
CompareStrings(a, b, order) ==
  IF a = <<>> THEN (IF b = <<>> THEN 0 ELSE -1)
  ELSE IF b = <<>> THEN 1
  ELSE IF Head(a) = Head(b) THEN CompareStrings(Tail(a), Tail(b), order)
  ELSE IF CharRank(Head(a), order) < CharRank(Head(b), order) THEN -1 ELSE 1

\* a.localeCompare(b).  Case is the only difference the collation ranks
\* below a later difference, and no two strings compared here differ in
\* case.
localeCompare(a, b) == CompareStrings(a, b, Collation)

ObjectObject ==
  <<"[", "o", "b", "j", "e", "c", "t", SP, "O", "b", "j", "e", "c", "t", "]">>
NullWord == <<"n", "u", "l", "l">>
TrueWord == <<"t", "r", "u", "e">>
FalseWord == <<"f", "a", "l", "s", "e">>

\* String(x)
RECURSIVE ToStringJS(_)
ToStringJS(x) ==
  CASE x.k = "null" -> NullWord
    [] x.k = "undefined" -> <<"u", "n", "d", "e", "f", "i", "n", "e", "d">>
    [] x.k = "bool" -> (IF x.b THEN TrueWord ELSE FalseWord)
    [] x.k = "num" -> NumToChars(x.n)
    [] x.k = "str" -> x.s
    [] x.k = "arr" ->
         Join([i \in 1..Len(x.items) |->
                 IF x.items[i].k \in {"null", "undefined"} THEN <<>>
                 ELSE ToStringJS(x.items[i])], <<",">>)
    [] x.k = "obj" -> ObjectObject

\* Object.keys(x)
ObjectKeys(x) ==
  CASE x.k = "obj" -> [i \in 1..Len(x.props) |-> x.props[i].key]
    [] x.k = "arr" -> [i \in 1..Len(x.items) |-> NumToChars(i - 1)]
    [] OTHER -> <<>>

LengthKey == <<"l", "e", "n", "g", "t", "h">>

\* The one inherited property name the model knows: every object and
\* every array has a constructor, which is a function.
ConstructorKey == <<"c", "o", "n", "s", "t", "r", "u", "c", "t", "o", "r">>

\* x has the own property key (an object or an array x).
HasOwnKey(x, key) ==
  CASE x.k = "obj" -> \E i \in 1..Len(x.props) : x.props[i].key = key
    [] x.k = "arr" ->
         \/ key = LengthKey
         \/ IsIndexKey(key) /\ CharsToNum(key, 0) < Len(x.items)
    [] OTHER -> FALSE

\* key in x, for an object or an array x: own or inherited.
HasKey(x, key) ==
  \/ HasOwnKey(x, key)
  \/ x.k \in {"obj", "arr"} /\ key = ConstructorKey

\* x[key]: the own property, else the inherited one, else undefined.
GetKey(x, key) ==
  CASE x.k = "obj" /\ HasOwnKey(x, key) ->
         x.props[CHOOSE i \in 1..Len(x.props) : x.props[i].key = key].val
    [] x.k = "arr" /\ key = LengthKey -> JNum(Len(x.items))
    [] x.k = "arr" /\ key # LengthKey /\ HasOwnKey(x, key) ->
         x.items[CharsToNum(key, 0) + 1]
    [] x.k \in {"obj", "arr"} /\ key = ConstructorKey -> JFunction
    [] OTHER -> Undefined

\* Where a new key goes among the properties of an object: an index key
\* before every larger index key and every other key, any other key last.
RECURSIVE InsertProp(_, _)
InsertProp(props, p) ==
  IF props = <<>> THEN <<p>>
  ELSE IF /\ IsIndexKey(p.key)
          /\ \/ ~IsIndexKey(Head(props).key)
             \/ CharsToNum(p.key, 0) < CharsToNum(Head(props).key, 0)
       THEN <<p>> \o props
       ELSE <<Head(props)>> \o InsertProp(Tail(props), p)

\* obj[key] = val on the properties of an object: an existing key keeps
\* its place.
SetProp(props, key, val) ==
  IF \E i \in 1..Len(props) : props[i].key = key
  THEN [i \in 1..Len(props) |->
          IF props[i].key = key THEN Prop(key, val) ELSE props[i]]
  ELSE InsertProp(props, Prop(key, val))

-----------------------------------------------------------------------------
(* JSON.parse and JSON.stringify                                           *)
(*                                                                         *)
(* The grammar of JSON over the characters of the model: objects, arrays,  *)
(* strings without escapes, natural numbers, true, false and null.         *)

ParseFail == [ok |-> FALSE]
Parsed(val, next) == [ok |-> TRUE, val |-> val, next |-> next]

RECURSIVE SkipWs(_, _)
SkipWs(s, i) ==
  IF i <= Len(s) /\ IsWhitespace(s[i]) THEN SkipWs(s, i + 1) ELSE i

HasWordAt(s, i, w) ==
  /\ i + Len(w) - 1 <= Len(s)
  /\ SubSeq(s, i, i + Len(w) - 1) = w

\* The string whose opening quote is before position i; a line break may
\* not occur in it.
ParseString(s, i) ==
  IF \E j \in i..Len(s) : s[j] = QT
  THEN LET j == CHOOSE j \in i..Len(s) :
                  s[j] = QT /\ \A n \in i..(j - 1) : s[n] # QT
       IN  IF \E n \in i..(j - 1) : s[n] = NL
           THEN ParseFail
           ELSE Parsed(SubSeq(s, i, j - 1), j + 1)
  ELSE ParseFail

RECURSIVE DigitRun(_, _)
DigitRun(s, i) ==
  IF i <= Len(s) /\ IsDigit(s[i]) THEN 1 + DigitRun(s, i + 1) ELSE 0

\* The number that starts with the digit at position i; after a leading 0
\* the number ends.
ParseNumber(s, i) ==
  IF s[i] = "0" THEN Parsed(JNum(0), i + 1)
  ELSE LET n == DigitRun(s, i)
       IN  Parsed(JNum(CharsToNum(SubSeq(s, i, i + n - 1), 0)), i + n)

RECURSIVE ParseValue(_, _)
RECURSIVE ParseElements(_, _, _)
RECURSIVE ParseMembers(_, _, _)

ParseValue(s, i) ==
  LET j == SkipWs(s, i)
  IN  IF j > Len(s) THEN ParseFail
      ELSE CASE s[j] = "{" ->
                  LET n == SkipWs(s, j + 1)
                  IN  IF n <= Len(s) /\ s[n] = "}"
                      THEN Parsed(JObj(<<>>), n + 1)
                      ELSE ParseMembers(s, n, <<>>)
             [] s[j] = "[" ->
                  LET n == SkipWs(s, j + 1)
                  IN  IF n <= Len(s) /\ s[n] = "]"
                      THEN Parsed(JArr(<<>>), n + 1)
                      ELSE ParseElements(s, n, <<>>)
             [] s[j] = QT ->
                  LET r == ParseString(s, j + 1)
                  IN  IF r.ok THEN Parsed(JStr(r.val), r.next) ELSE ParseFail
             [] IsDigit(s[j]) -> ParseNumber(s, j)
             [] HasWordAt(s, j, NullWord) -> Parsed(JNull, j + 4)
             [] HasWordAt(s, j, TrueWord) -> Parsed(JBool(TRUE), j + 4)
             [] HasWordAt(s, j, FalseWord) -> Parsed(JBool(FALSE), j + 5)
             [] OTHER -> ParseFail

\* The elements of an array from position i on, elems being those before.
ParseElements(s, i, elems) ==
  LET r == ParseValue(s, i)
  IN  IF ~r.ok THEN ParseFail
      ELSE LET n == SkipWs(s, r.next)
           IN  IF n > Len(s) THEN ParseFail
               ELSE IF s[n] = "," THEN ParseElements(s, n + 1, Append(elems, r.val))
               ELSE IF s[n] = "]" THEN Parsed(JArr(Append(elems, r.val)), n + 1)
               ELSE ParseFail

\* The members of an object from position i on, props being those before.
ParseMembers(s, i, props) ==
  LET j == SkipWs(s, i)
  IN  IF j > Len(s) \/ s[j] # QT THEN ParseFail
      ELSE LET key == ParseString(s, j + 1)
           IN  IF ~key.ok THEN ParseFail
               ELSE LET c == SkipWs(s, key.next)
                    IN  IF c > Len(s) \/ s[c] # ":" THEN ParseFail
                        ELSE LET r == ParseValue(s, c + 1)
                             IN  IF ~r.ok THEN ParseFail
                                 ELSE LET n == SkipWs(s, r.next)
                                          more == SetProp(props, key.val, r.val)
                                      IN  IF n > Len(s) THEN ParseFail
                                          ELSE IF s[n] = ","
                                               THEN ParseMembers(s, n + 1, more)
                                          ELSE IF s[n] = "}"
                                               THEN Parsed(JObj(more), n + 1)
                                          ELSE ParseFail

\* JSON.parse(s): ok is FALSE where JSON.parse throws a SyntaxError.
JSONparse(s) ==
  LET r == ParseValue(s, 1)
  IN  IF r.ok /\ SkipWs(s, r.next) > Len(s)
      THEN [ok |-> TRUE, val |-> r.val]
      ELSE ParseFail

Indent(level) == [i \in 1..(2 * level) |-> SP]

\* JSON.stringify(x, null, 2), x nested at the given level.
RECURSIVE Stringify(_, _)
Stringify(x, level) ==
  CASE x.k = "null" -> NullWord
    [] x.k = "bool" -> (IF x.b THEN TrueWord ELSE FalseWord)
    [] x.k = "num" -> NumToChars(x.n)
    [] x.k = "str" -> <<QT>> \o x.s \o <<QT>>
    [] x.k = "arr" ->
         IF x.items = <<>> THEN <<"[", "]">>
         ELSE <<"[", NL>>
              \o Join([i \in 1..Len(x.items) |->
                         Indent(level + 1) \o Stringify(x.items[i], level + 1)],
                      <<",", NL>>)
              \o <<NL>> \o Indent(level) \o <<"]">>
    [] x.k = "obj" ->
         IF x.props = <<>> THEN <<"{", "}">>
         ELSE <<"{", NL>>
              \o Join([i \in 1..Len(x.props) |->
                         Indent(level + 1) \o <<QT>> \o x.props[i].key \o <<QT, ":", SP>>
                           \o Stringify(x.props[i].val, level + 1)],
                      <<",", NL>>)
              \o <<NL>> \o Indent(level) \o <<"}">>

JSONstringify(x) == Stringify(x, 0)

-----------------------------------------------------------------------------
(* Normalisation (json-utils)                                              *)

Fence == <<BT, BT, BT>>

StartsWith(s, w) == HasWordAt(s, 1, w)
EndsWith(s, w) == Len(w) <= Len(s) /\ SubSeq(s, Len(s) - Len(w) + 1, Len(s)) = w
Drop(s, n) == SubSeq(s, n + 1, Len(s))

\* s.replace(/^```(?:json|javascript|js)?\s*\n?/i, ''), on lower-case text
RemoveOpeningFence(s) ==
  IF ~StartsWith(s, Fence) THEN s
  ELSE LET rest == Drop(s, 3)
           lang == IF StartsWith(rest, <<"j", "s", "o", "n">>) THEN 4
                   ELSE IF StartsWith(rest, <<"j", "a", "v", "a", "s", "c", "r",
                                              "i", "p", "t">>) THEN 10
                   ELSE IF StartsWith(rest, <<"j", "s">>) THEN 2
                   ELSE 0
       IN  TrimStart(Drop(rest, lang))

\* s.replace(/\n?```\s*$/i, ''): the fence has to be the last thing before
\* trailing whitespace; a line break right before it goes with it.
RemoveClosingFence(s) ==
  LET t == TrimEnd(s)
  IN  IF ~EndsWith(t, Fence) THEN s
      ELSE LET before == SubSeq(t, 1, Len(t) - 3)
           IN  IF before # <<>> /\ before[Len(before)] = NL
               THEN SubSeq(before, 1, Len(before) - 1)
               ELSE before

extractJsonFromMarkdown(str) ==
  LET trimmed   == Trim(str)
      extracted == Trim(RemoveClosingFence(RemoveOpeningFence(trimmed)))
  IN  IF StartsWith(extracted, <<BT>>) /\ EndsWith(extracted, <<BT>>)
      THEN Trim(SubSeq(extracted, 2, Len(extracted) - 1))
      ELSE extracted

isValidJson(str) ==
  \/ JSONparse(Trim(str)).ok
  \/ JSONparse(extractJsonFromMarkdown(str)).ok

EmptyString == <<>>
IdKey == <<"i", "d">>
NameKey == <<"n", "a", "m", "e">>
KeyKey == <<"k", "e", "y">>

\* a.id || a.name || a.key || ''
FirstTruthy(a) ==
  IF IsTruthy(GetKey(a, IdKey)) THEN GetKey(a, IdKey)
  ELSE IF IsTruthy(GetKey(a, NameKey)) THEN GetKey(a, NameKey)
  ELSE IF IsTruthy(GetKey(a, KeyKey)) THEN GetKey(a, KeyKey)
  ELSE JStr(EmptyString)

\* The string the comparator of the array sort compares an element by.
SortKey(a) == ToStringJS(FirstTruthy(a))

\* Array.prototype.sort with the comparator of normalizeJsonObject.  The
\* sort is stable: an element goes behind the elements that compare equal
\* to it and came before it.
\* An insertion that puts an element before the elements that compare
\* equal to it: the sort it gives is not stable.
RECURSIVE InsertBeforeEqual(_, _)
InsertBeforeEqual(sorted, a) ==
  IF sorted = <<>> THEN <<a>>
  ELSE IF localeCompare(SortKey(a), SortKey(Head(sorted))) <= 0
       THEN <<a>> \o sorted
       ELSE <<Head(sorted)>> \o InsertBeforeEqual(Tail(sorted), a)

RECURSIVE InsertByKey(_, _)
InsertByKey(sorted, a) ==
  IF sorted = <<>> THEN <<a>>
  ELSE IF localeCompare(SortKey(a), SortKey(Head(sorted))) < 0
       THEN <<a>> \o sorted
       ELSE <<Head(sorted)>> \o InsertByKey(Tail(sorted), a)

RECURSIVE SortByKey(_, _)
SortByKey(sorted, rest) ==
  IF rest = <<>> THEN sorted
  ELSE SortByKey(InsertByKey(sorted, Head(rest)), Tail(rest))

\* Object.keys(obj).sort(): by code units
RECURSIVE InsertKey(_, _)
InsertKey(sorted, key) ==
  IF sorted = <<>> THEN <<key>>
  ELSE IF CompareStrings(key, Head(sorted), CodeUnits) < 0
       THEN <<key>> \o sorted
       ELSE <<Head(sorted)>> \o InsertKey(Tail(sorted), key)

RECURSIVE SortKeys(_, _)
SortKeys(sorted, rest) ==
  IF rest = <<>> THEN sorted
  ELSE SortKeys(InsertKey(sorted, Head(rest)), Tail(rest))

\* The loop that fills the object normalized, key by key.
RECURSIVE SetProps(_, _, _)
SetProps(props, keys, vals) ==
  IF keys = <<>> THEN props
  ELSE SetProps(SetProp(props, Head(keys), Head(vals)), Tail(keys), Tail(vals))

RECURSIVE normalizeJsonObject(_)
normalizeJsonObject(obj) ==
  IF obj.k = "null" \/ TypeOf(obj) # "object" THEN obj
  ELSE IF obj.k = "arr" THEN
    LET normalized == [i \in 1..Len(obj.items) |-> normalizeJsonObject(obj.items[i])]
    IN  IF \E i \in 1..Len(normalized) : normalized[i] = Thrown THEN Thrown
        ELSE IF /\ Len(normalized) > 0
                /\ TypeOf(normalized[1]) = "object"
                /\ normalized[1].k # "null"
                /\ \/ HasKey(normalized[1], IdKey)
                   \/ HasKey(normalized[1], NameKey)
                   \/ HasKey(normalized[1], KeyKey)
        THEN \* the comparator reads a.id of every element it is given,
             \* and a sort of two or more elements gives it every element
             IF /\ Len(normalized) >= 2
                /\ \E i \in 1..Len(normalized) : normalized[i].k = "null"
             THEN Thrown
             ELSE JArr(SortByKey(<<>>, normalized))
        ELSE JArr(normalized)
  ELSE
    LET sortedKeys == SortKeys(<<>>, ObjectKeys(obj))
        vals == [i \in 1..Len(sortedKeys) |->
                   normalizeJsonObject(GetKey(obj, sortedKeys[i]))]
    IN  IF \E i \in 1..Len(vals) : vals[i] = Thrown THEN Thrown
        ELSE JObj(SetProps(<<>>, sortedKeys, vals))

NoError == "undefined"
SyntaxError == "SyntaxError: the text is not JSON"
TypeError == "TypeError: Cannot read properties of null"

\* The value a try block of normalizeJson returns once normalizeJsonObject
\* has returned, or the message of the TypeError it has thrown.
TryStringify(normalized) ==
  IF normalized = Thrown THEN [ok |-> FALSE, error |-> TypeError]
  ELSE [ok |-> TRUE,
        normalized |-> JSONstringify(normalized),
        parsed |-> normalized]

\* The body of either try block of normalizeJson from the outcome of
\* JSON.parse on.
TryParsed(parsed) ==
  IF ~parsed.ok THEN [ok |-> FALSE, error |-> SyntaxError]
  ELSE TryStringify(normalizeJsonObject(parsed.val))

\* The body of either try block of normalizeJson on the text it parses:
\* the value returned, or the message of the error thrown.
TryNormalize(jsonToParse) == TryParsed(JSONparse(jsonToParse))

\* What normalizeJson returns, first being the outcome of its outer try
\* block and second the outcome of the inner one.
NormalizeResult(jsonStr, first, second) ==
  IF first.ok
  THEN [called |-> TRUE, normalized |-> first.normalized,
        parsed |-> first.parsed, error |-> NoError]
  ELSE IF second.ok
  THEN [called |-> TRUE, normalized |-> second.normalized,
        parsed |-> second.parsed, error |-> NoError]
  ELSE [called |-> TRUE, normalized |-> jsonStr,
        parsed |-> JNull, error |-> second.error]

normalizeJson(jsonStr) ==
  NormalizeResult(jsonStr,
                  TryNormalize(Trim(jsonStr)),
                  TryNormalize(extractJsonFromMarkdown(jsonStr)))

-----------------------------------------------------------------------------
(* Comparison of JSON values (json-utils) and the JSON diff                *)

\* obj1 === obj2 on values that come from two calls of JSON.parse: no two
\* objects or arrays are the same reference.
StrictEqual(obj1, obj2) == IsPrimitive(obj1) /\ obj1 = obj2

\* obj == null
IsNullish(x) == x.k \in {"null", "undefined"}

\* deepEqual(obj1, obj2) with the default tolerance 0.  An array and an
\* object reach the branch of objects and are compared by their keys.
RECURSIVE deepEqual(_, _)
deepEqual(obj1, obj2) ==
  IF StrictEqual(obj1, obj2) THEN TRUE
  ELSE IF IsNullish(obj1) \/ IsNullish(obj2) THEN FALSE
  ELSE IF TypeOf(obj1) # TypeOf(obj2) THEN FALSE
  ELSE IF TypeOf(obj1) = "number" THEN obj1.n = obj2.n
  ELSE IF TypeOf(obj1) = "string" THEN obj1.s = obj2.s
  ELSE IF obj1.k = "arr" /\ obj2.k = "arr" THEN
    /\ Len(obj1.items) = Len(obj2.items)
    /\ \A i \in 1..Len(obj1.items) : deepEqual(obj1.items[i], obj2.items[i])
  ELSE IF TypeOf(obj1) = "object" THEN
    LET keys1 == SortKeys(<<>>, ObjectKeys(obj1))
        keys2 == SortKeys(<<>>, ObjectKeys(obj2))
    IN  /\ Len(keys1) = Len(keys2)
        /\ \A i \in 1..Len(keys1) : keys1[i] = keys2[i]
        /\ \A i \in 1..Len(keys1) :
             deepEqual(GetKey(obj1, keys1[i]), GetKey(obj2, keys1[i]))
  ELSE FALSE

Count(matches, total) == [matches |-> matches, total |-> total]

RECURSIVE SumMatches(_)
SumMatches(counts) ==
  IF counts = <<>> THEN 0 ELSE Head(counts).matches + SumMatches(Tail(counts))

RECURSIVE SumTotal(_)
SumTotal(counts) ==
  IF counts = <<>> THEN 0 ELSE Head(counts).total + SumTotal(Tail(counts))

\* new Set([...keys1, ...keys2]) in the order of insertion
RECURSIVE AllKeys(_, _)
AllKeys(seen, keys) ==
  IF keys = <<>> THEN seen
  ELSE IF \E i \in 1..Len(seen) : seen[i] = Head(keys)
       THEN AllKeys(seen, Tail(keys))
       ELSE AllKeys(Append(seen, Head(keys)), Tail(keys))

RECURSIVE calculateGranularSimilarity(_, _)
calculateGranularSimilarity(obj1, obj2) ==
  IF TypeOf(obj1) # TypeOf(obj2) THEN Count(0, 1)
  ELSE IF IsNullish(obj1) \/ IsNullish(obj2)
       THEN Count(IF StrictEqual(obj1, obj2) THEN 1 ELSE 0, 1)
  ELSE IF TypeOf(obj1) # "object"
       THEN Count(IF StrictEqual(obj1, obj2) THEN 1 ELSE 0, 1)
  ELSE IF obj1.k = "arr" /\ obj2.k = "arr" THEN
    LET maxLen == Max(Len(obj1.items), Len(obj2.items))
        minLen == Min(Len(obj1.items), Len(obj2.items))
        results == [i \in 1..minLen |->
                      calculateGranularSimilarity(obj1.items[i], obj2.items[i])]
    IN  IF maxLen = 0 THEN Count(1, 1)
        ELSE Count(SumMatches(results), SumTotal(results) + (maxLen - minLen))
  ELSE
    LET allKeys == AllKeys(<<>>, ObjectKeys(obj1) \o ObjectKeys(obj2))
        results == [i \in 1..Len(allKeys) |->
                      IF HasKey(obj1, allKeys[i]) /\ HasKey(obj2, allKeys[i])
                      THEN calculateGranularSimilarity(GetKey(obj1, allKeys[i]),
                                                       GetKey(obj2, allKeys[i]))
                      ELSE Count(0, 1)]
    IN  IF Len(allKeys) = 0 THEN Count(1, 1)
        ELSE Count(SumMatches(results), SumTotal(results))

calculateObjectSimilarity(obj1, obj2) ==
  IF deepEqual(obj1, obj2) THEN One
  ELSE LET granular == calculateGranularSimilarity(obj1, obj2)
       IN  Frac(granular.matches, granular.total)

calculateJsonStructuralSimilarity(obj1, obj2) ==
  IF deepEqual(obj1, obj2) THEN One
  ELSE calculateObjectSimilarity(obj1, obj2)

\* NaN, the ratio 0/0
NaN == Frac(0, 0)
IsNaN(x) == x[2] = 0

-----------------------------------------------------------------------------
(* The diff of two arrays by their longest common subsequence              *)

ArrayThreshold == Frac(4, 5)

\* LcsCell with the table left as it is initialised: all zero.
LcsCellZero(arr1, arr2, i, j) == 0

\* lcs[i][j] of calculateLCSArrayDiff
RECURSIVE LcsCell(_, _, _, _)
LcsCell(arr1, arr2, i, j) ==
  IF i = 0 \/ j = 0 THEN 0
  ELSE IF deepEqual(arr1[i], arr2[j]) THEN LcsCell(arr1, arr2, i - 1, j - 1) + 1
  ELSE Max(LcsCell(arr1, arr2, i - 1, j), LcsCell(arr1, arr2, i, j - 1))

EqualOp(value, oldIndex, newIndex) ==
  [type |-> "equal", value |-> value, oldIndex |-> oldIndex, newIndex |-> newIndex]
\* AddedOp with the type the interface reserves for an element that moved.
MovedOp(value, newIndex) == [type |-> "moved", value |-> value, newIndex |-> newIndex]
AddedOp(value, newIndex) == [type |-> "added", value |-> value, newIndex |-> newIndex]
RemovedOp(value, oldIndex) ==
  [type |-> "removed", value |-> value, oldIndex |-> oldIndex]

\* The backtracking loop of calculateLCSArrayDiff from the cell (i, j) on,
\* operations being what has been put in front so far.
RECURSIVE LcsBacktrack(_, _, _, _, _)
LcsBacktrack(arr1, arr2, i, j, operations) ==
  IF i = 0 /\ j = 0 THEN operations
  ELSE IF i > 0 /\ j > 0 /\ deepEqual(arr1[i], arr2[j])
  THEN LcsBacktrack(arr1, arr2, i - 1, j - 1,
                    <<EqualOp(arr1[i], i - 1, j - 1)>> \o operations)
  ELSE IF /\ i > 0 /\ j > 0
          /\ FracLt(ArrayThreshold, calculateObjectSimilarity(arr1[i], arr2[j]))
  THEN LcsBacktrack(arr1, arr2, i - 1, j - 1,
                    <<EqualOp(arr2[j], i - 1, j - 1)>> \o operations)
  ELSE IF /\ j > 0
          /\ \/ i = 0
             \/ LcsCell(arr1, arr2, i, j - 1) >= LcsCell(arr1, arr2, i - 1, j)
  THEN LcsBacktrack(arr1, arr2, i, j - 1,
                    <<AddedOp(arr2[j], j - 1)>> \o operations)
  ELSE LcsBacktrack(arr1, arr2, i - 1, j,
                    <<RemovedOp(arr1[i], i - 1)>> \o operations)

calculateLCSArrayDiff(arr1, arr2) ==
  LcsBacktrack(arr1, arr2, Len(arr1), Len(arr2), <<>>)

\* How many operations of a diff of arrays have the given type.
CountType(operations, type) ==
  Cardinality({n \in 1..Len(operations) : operations[n].type = type})

-----------------------------------------------------------------------------
(* The counting of changes between two JSON values                         *)

Changes(structuralChanges, additions, removals) ==
  [structuralChanges |-> structuralChanges, valueChanges |-> structuralChanges,
   additions |-> additions, removals |-> removals]

RECURSIVE SumChanges(_)
SumChanges(counts) ==
  IF counts = <<>> THEN Changes(0, 0, 0)
  ELSE Changes(Head(counts).structuralChanges
                 + SumChanges(Tail(counts)).structuralChanges,
               Head(counts).additions + SumChanges(Tail(counts)).additions,
               Head(counts).removals + SumChanges(Tail(counts)).removals)

\* countChanges of calculateImprovedJsonChanges: what one call adds to the
\* three counters.
RECURSIVE countChanges(_, _)

\* The branches for a key that both values have.
CountValues(v1, v2) ==
  IF TypeOf(v1) = "object" /\ TypeOf(v2) = "object" THEN countChanges(v1, v2)
  ELSE IF ~deepEqual(v1, v2) THEN Changes(1, 0, 0)
  ELSE Changes(0, 0, 0)

\* The body of allKeys.forEach
CountKey(o1, o2, key) ==
  IF ~HasKey(o1, key) THEN Changes(0, 1, 0)
  ELSE IF ~HasKey(o2, key) THEN Changes(0, 0, 1)
  ELSE CountValues(GetKey(o1, key), GetKey(o2, key))

CountKeys(o1, o2, allKeys) ==
  SumChanges([n \in 1..Len(allKeys) |-> CountKey(o1, o2, allKeys[n])])

\* The two counters a diff of arrays adds to.
CountOperations(arrayDiff) ==
  Changes(0, CountType(arrayDiff, "added"), CountType(arrayDiff, "removed"))

countChanges(o1, o2) ==
  IF o1.k = "arr" /\ o2.k = "arr"
  THEN CountOperations(calculateLCSArrayDiff(o1.items, o2.items))
  ELSE IF /\ TypeOf(o1) = "object" /\ TypeOf(o2) = "object"
          /\ o1.k # "null" /\ o2.k # "null"
  THEN CountKeys(o1, o2, AllKeys(<<>>, ObjectKeys(o1) \o ObjectKeys(o2)))
  ELSE Changes(0, 0, 0)

\* The changes calculateImprovedJsonChanges falls back to: those of the
\* word diff of the two normalized texts.
TextChanges(textDiff) ==
  [structuralChanges |-> 0, valueChanges |-> textDiff.changes.modified,
   additions |-> textDiff.changes.added, removals |-> textDiff.changes.removed]

calculateImprovedJsonChanges(obj1, obj2, text1, text2) ==
  IF ~IsTruthy(obj1) \/ ~IsTruthy(obj2)
  THEN TextChanges(calculateDiff(text1, text2))
  ELSE countChanges(obj1, obj2)

-----------------------------------------------------------------------------
(* The HTML of the JSON diff                                               *)
(*                                                                         *)
(* Thrown stands for the TypeError of escapeHtml called on undefined.      *)

\* JSON.stringify(x) is a string: for a function (and for undefined) it is
\* undefined, on which escapeHtml throws.
CanStringify(x) == x.k \notin {"function", "undefined"}

\* JSON.stringify(x), without the indent argument.
RECURSIVE StringifyCompact(_)
StringifyCompact(x) ==
  CASE x.k = "null" -> NullWord
    [] x.k = "bool" -> (IF x.b THEN TrueWord ELSE FalseWord)
    [] x.k = "num" -> NumToChars(x.n)
    [] x.k = "str" -> <<QT>> \o x.s \o <<QT>>
    [] x.k = "arr" ->
         <<"[">> \o Join([i \in 1..Len(x.items) |-> StringifyCompact(x.items[i])],
                         <<",">>) \o <<"]">>
    [] x.k = "obj" ->
         <<"{">> \o Join([i \in 1..Len(x.props) |->
                            <<QT>> \o x.props[i].key \o <<QT, ":">>
                              \o StringifyCompact(x.props[i].val)],
                         <<",">>) \o <<"}">>

\* The callback of operations.map in generateArrayDiffHtml; the indices it
\* writes are the engine's.
ArrayOpHtml(op) ==
  LET valueStr == IF TypeOf(op.value) = "object" THEN JSONstringify(op.value)
                  ELSE ToStringJS(op.value)
  IN  CASE op.type = "added" -> Html("array-item-added", <<escapeHtml(valueStr)>>)
        [] op.type = "removed" -> Html("array-item-removed", <<escapeHtml(valueStr)>>)
        [] OTHER -> Html("array-item-equal", <<escapeHtml(valueStr)>>)

generateArrayDiffHtml(operations) ==
  Html("", Texts([n \in 1..Len(operations) |-> ArrayOpHtml(operations[n])]))

\* The div of the branch obj1 === null || obj2 === null || typeof differs
ChangeHtml(obj1, obj2) ==
  IF CanStringify(obj1) /\ CanStringify(obj2)
  THEN Html("json-change", <<escapeHtml(JSONstringify(obj1)),
                             escapeHtml(JSONstringify(obj2))>>)
  ELSE Thrown

\* Array.from(allKeys).sort()
SortedAllKeys(obj1, obj2) ==
  SortKeys(<<>>, AllKeys(<<>>, ObjectKeys(obj1) \o ObjectKeys(obj2)))

\* The div of two objects, from the pieces of its keys.
ObjectHtml(entries) ==
  IF \E n \in 1..Len(entries) : entries[n] = Thrown THEN Thrown
  ELSE [class |-> "json-object", entries |-> entries, texts |-> Texts(entries)]

RECURSIVE generateStructuralDiffHtml(_, _)

\* The key of a piece and what generateStructuralDiffHtml makes of its two
\* values.
NestedHtml(key, html) ==
  IF html = Thrown THEN Thrown
  ELSE Html("json-key", <<escapeHtml(key)>> \o html.texts)

\* The key of a piece and its value, where the value can be written.
KeyValueHtml(class, key, value) ==
  IF CanStringify(value)
  THEN Html(class, <<escapeHtml(key), escapeHtml(StringifyCompact(value))>>)
  ELSE Thrown

\* The piece of a key of keyArray.forEach.
KeyHtml(obj1, obj2, key) ==
  IF HasKey(obj1, key) /\ HasKey(obj2, key)
  THEN IF StrictEqual(GetKey(obj1, key), GetKey(obj2, key))
       THEN KeyValueHtml("json-equal", key, GetKey(obj1, key))
       ELSE NestedHtml(key, generateStructuralDiffHtml(GetKey(obj1, key),
                                                       GetKey(obj2, key)))
  ELSE IF HasKey(obj1, key)
  THEN KeyValueHtml("json-removed", key, GetKey(obj1, key))
  ELSE KeyValueHtml("json-added", key, GetKey(obj2, key))

KeysHtml(obj1, obj2, keyArray) ==
  ObjectHtml([n \in 1..Len(keyArray) |-> KeyHtml(obj1, obj2, keyArray[n])])

generateStructuralDiffHtml(obj1, obj2) ==
  IF StrictEqual(obj1, obj2)
  THEN Html("json-equal", <<escapeHtml(JSONstringify(obj1))>>)
  ELSE IF obj1.k = "null" \/ obj2.k = "null" \/ TypeOf(obj1) # TypeOf(obj2)
  THEN ChangeHtml(obj1, obj2)
  ELSE IF obj1.k = "arr" /\ obj2.k = "arr"
  THEN [class |-> "json-array-improved",
        operations |-> calculateLCSArrayDiff(obj1.items, obj2.items),
        texts |-> generateArrayDiffHtml(
                    calculateLCSArrayDiff(obj1.items, obj2.items)).texts]
  ELSE IF TypeOf(obj1) = "object" /\ TypeOf(obj2) = "object"
  THEN KeysHtml(obj1, obj2, SortedAllKeys(obj1, obj2))
  ELSE Html("json-change", <<escapeHtml(StringifyCompact(obj1)),
                             escapeHtml(StringifyCompact(obj2))>>)

\* textDiff.diffHtml, the HTML of the word diff of the two normalized texts.
TextDiffHtml(goldenText, outputText) == calculateDiff(goldenText, outputText).diffHtml

generateImprovedJsonDiffHtml(goldenParsed, outputParsed, goldenText, outputText) ==
  IF IsTruthy(goldenParsed) /\ IsTruthy(outputParsed)
  THEN generateStructuralDiffHtml(goldenParsed, outputParsed)
  ELSE TextDiffHtml(goldenText, outputText)

-----------------------------------------------------------------------------
(* calculateJsonDiff                                                       *)

\* const structuralSimilarity = goldenNorm.parsed && outputNorm.parsed ? ... : 0
StructuralSimilarity(goldenParsed, outputParsed) ==
  IF IsTruthy(goldenParsed) /\ IsTruthy(outputParsed)
  THEN calculateJsonStructuralSimilarity(goldenParsed, outputParsed)
  ELSE Zero

\* The changes of the two returns for a text that is not valid JSON.
NaNChanges ==
  [structuralChanges |-> 0, valueChanges |-> NaN, additions |-> NaN,
   removals |-> NaN]

\* calculateJsonDiff left by an exception instead of a return.
ThrewResult == [called |-> TRUE, threw |-> TRUE]

\* The result of calculateJsonDiff where both texts are valid, or the
\* exception of generateImprovedJsonDiffHtml.
BothValidResult(goldenNorm, outputNorm, finalSimilarity, improvedChanges, diffHtml) ==
  IF diffHtml = Thrown THEN ThrewResult
  ELSE
  [called |-> TRUE, threw |-> FALSE,
   diffScore |-> FracSub(One, finalSimilarity),
   similarity |-> finalSimilarity,
   diffHtml |-> diffHtml,
   normalizedGolden |-> goldenNorm.normalized,
   normalizedOutput |-> outputNorm.normalized,
   isValidJson |-> [golden |-> TRUE, output |-> TRUE],
   parseErrors |-> [golden |-> goldenNorm.error, output |-> outputNorm.error],
   changes |-> improvedChanges]

\* The result of calculateJsonDiff from the four values it computes first.
JsonDiffResult(g, o, goldenValid, outputValid, goldenNorm, outputNorm) ==
  IF ~goldenValid THEN
    [called |-> TRUE, threw |-> FALSE, diffScore |-> NaN, similarity |-> NaN,
     diffHtml |-> Html("", <<>>),
     normalizedGolden |-> g, normalizedOutput |-> o,
     isValidJson |-> [golden |-> FALSE, output |-> FALSE],
     parseErrors |-> [golden |-> "", output |-> ""],
     changes |-> NaNChanges]
  ELSE IF ~outputValid THEN
    [called |-> TRUE, threw |-> FALSE, diffScore |-> NaN, similarity |-> NaN,
     diffHtml |-> Html("", <<>>),
     normalizedGolden |-> g, normalizedOutput |-> o,
     isValidJson |-> [golden |-> TRUE, output |-> FALSE],
     parseErrors |-> [golden |-> goldenNorm.error, output |-> outputNorm.error],
     changes |-> NaNChanges]
  ELSE BothValidResult(goldenNorm, outputNorm,
         StructuralSimilarity(goldenNorm.parsed, outputNorm.parsed),
         calculateImprovedJsonChanges(goldenNorm.parsed, outputNorm.parsed,
                                      goldenNorm.normalized, outputNorm.normalized),
         generateImprovedJsonDiffHtml(goldenNorm.parsed, outputNorm.parsed,
                                      goldenNorm.normalized, outputNorm.normalized))

\* calculateJsonDiff.  The text diff of the normalized texts
\* (normalizedTextDiff) is computed by the code and read only where
\* goldenValid && outputValid is false, which is not the case where it is
\* computed.
calculateJsonDiff(g, o) ==
  JsonDiffResult(g, o, isValidJson(g), isValidJson(o),
                 normalizeJson(g), normalizeJson(o))

-----------------------------------------------------------------------------
(* The texts the word diff and the line diff are called on                 *)

\* Bounds: the largest number of words of a reference and of a candidate.
MaxGoldenWords == 2
MaxOutputWords == 3

\* Two words closer than the 0.8 threshold (one edit in six characters) and
\* a short word far from both.
Vocabulary ==
  { <<"h", "i">>,
    <<"a", "b", "c", "d", "e", "f">>,
    <<"a", "b", "c", "d", "e", "g">> }

WordSeqs(n) == UNION {[1..k -> Vocabulary] : k \in 0..n}

\* A text of the given words: on one line with single spaces, or one word
\* per line with a space before the first and after the last word (a text
\* without words is then the empty string or whitespace only).
Layouts == {"plain", "lines"}

TextOf(words, layout) ==
  IF layout = "plain" THEN Join(words, <<SP>>)
  ELSE <<SP>> \o Join(words, <<NL>>) \o <<SP>>

GoldenTexts == {TextOf(w, l) : w \in WordSeqs(MaxGoldenWords), l \in Layouts}
OutputTexts == {TextOf(w, l) : w \in WordSeqs(MaxOutputWords), l \in Layouts}

-----------------------------------------------------------------------------
(* The calls                                                               *)

\* A reference of three words and a candidate of four with alignments of
\* the least cost that differ in the number of their parts.
TiedGolden ==
  TextOf(<< <<"a", "b", "c", "d", "e", "f">>, <<"h", "i">>,
            <<"a", "b", "c", "d", "e", "f">> >>, "plain")
TiedOutput ==
  TextOf(<< <<"h", "i">>, <<"a", "b", "c", "d", "e", "g">>,
            <<"a", "b", "c", "d", "e", "f">>, <<"h", "i">> >>, "plain")

InitText ==
  /\ \/ golden \in GoldenTexts /\ output \in OutputTexts
     \/ golden = TiedGolden /\ output = TiedOutput
  /\ diff = NotCalled
  /\ lineDiff = NotCalled
  /\ normGolden = NotCalled
  /\ normOutput = NotCalled
  /\ normAgain = NotCalled
  /\ jsonDiff = NotCalled
  /\ NoRun

CallCalculateDiff ==
  /\ ~diff.called
  /\ diff' = calculateDiff(golden, output)
  /\ UNCHANGED <<runVars, golden, output, lineDiff, normGolden, normOutput, normAgain,
               jsonDiff>>

CallCalculateLineDiff ==
  /\ ~lineDiff.called
  /\ lineDiff' = calculateLineDiff(golden, output)
  /\ UNCHANGED <<runVars, golden, output, diff, normGolden, normOutput, normAgain,
               jsonDiff>>

NextText == CallCalculateDiff \/ CallCalculateLineDiff

SpecText == InitText /\ [][NextText]_vars

-----------------------------------------------------------------------------
(* Claims about the word diff and the line diff (under SpecText)           *)

goldenWords == tokenize(golden)
outputWords == tokenize(output)

\* The number of words of a text: the places where a character that is not
\* whitespace starts the text or follows whitespace.
NumWords(text) ==
  Cardinality({k \in 1..Len(text) :
                 /\ ~IsWhitespace(text[k])
                 /\ (k = 1 \/ IsWhitespace(text[k - 1]))})
WordsOf(ws) == {ws[k] : k \in 1..Len(ws)}

\* The alignment calculateDiff computes for the two texts.
Alignment == computeWordDiff(goldenWords, outputWords)

\* A part that costs less than 1.0: an EQUAL, or a REPLACE of two words
\* closer than the threshold.
IsCheapPart(part) ==
  \/ part.operation = EQUAL
  \/ part.operation = REPLACE /\ part.cost = 1

\* C1: the word diff of a text with itself has similarity 1, diffScore 0
\* and no added, removed or modified word.
C1_IdenticalTexts ==
  (diff.called /\ golden = output) =>
    /\ FracEq(diff.similarity, One)
    /\ FracEq(diff.diffScore, Zero)
    /\ diff.changes = [added |-> 0, removed |-> 0, modified |-> 0]

C1_Witness ==
  /\ diff.called
  /\ golden = output
  /\ Len(goldenWords) >= 2
  /\ FracEq(diff.similarity, One)

InUnitInterval(x) == FracLe(Zero, x) /\ FracLe(x, One)

\* C2: in the result of the word diff and in the result of the line diff,
\* diffScore + similarity = 1 and both lie between 0 and 1.
C2_ScoresSumToOne ==
  /\ diff.called =>
       /\ FracEq(FracAdd(diff.diffScore, diff.similarity), One)
       /\ InUnitInterval(diff.diffScore)
       /\ InUnitInterval(diff.similarity)
  /\ lineDiff.called =>
       /\ FracEq(FracAdd(lineDiff.diffScore, lineDiff.similarity), One)
       /\ InUnitInterval(lineDiff.diffScore)
       /\ InUnitInterval(lineDiff.similarity)

C2_Witness ==
  /\ diff.called
  /\ lineDiff.called
  /\ diff.changes.added > 0
  /\ FracLt(Zero, diff.diffScore) /\ FracLt(diff.diffScore, One)
  /\ FracLt(Zero, lineDiff.diffScore) /\ FracLt(lineDiff.diffScore, One)

\* No word of the reference equals a word of the candidate or is closer to
\* one than the 0.8 threshold.
NoWordAlike ==
  \A g \in WordsOf(goldenWords) : \A o \in WordsOf(outputWords) :
    g # o /\ ~FracLt(WordThreshold, calculateWordSimilarity(g, o))

\* C3: two non-empty texts without any equal or similar pair of words get
\* similarity 0 and diffScore 1, with added > 0 and removed > 0.
C3_CompletelyDifferent ==
  (/\ diff.called
   /\ Len(goldenWords) > 0
   /\ Len(outputWords) > 0
   /\ NoWordAlike) =>
    /\ FracEq(diff.similarity, Zero)
    /\ FracEq(diff.diffScore, One)
    /\ diff.changes.added > 0
    /\ diff.changes.removed > 0

HasCommonWord == WordsOf(goldenWords) \cap WordsOf(outputWords) # {}

\* C4 as stated: texts that are not token-identical but have a word in
\* common get 0 < similarity < 1 and 0 < diffScore < 1, and similarity 0 is
\* returned only for texts without a common word.
C4_AsStated ==
  /\ (diff.called /\ goldenWords # outputWords /\ HasCommonWord) =>
       /\ FracLt(Zero, diff.similarity) /\ FracLt(diff.similarity, One)
       /\ FracLt(Zero, diff.diffScore) /\ FracLt(diff.diffScore, One)
  /\ (diff.called /\ FracEq(diff.similarity, Zero)) => ~HasCommonWord

HasCheapPart(alignment) ==
  \E k \in 1..Len(alignment) : IsCheapPart(alignment[k])

\* C4 as amended: texts that are not token-identical get similarity < 1
\* and diffScore > 0, and their similarity is above 0 (their diffScore below
\* 1) exactly when the alignment that calculateDiff computes pairs a
\* reference word with an equal candidate word or with one closer than the
\* threshold; a common word alone is not enough.
C4_PartialMatch ==
  (diff.called /\ goldenWords # outputWords) =>
    /\ FracLt(diff.similarity, One)
    /\ FracLt(Zero, diff.diffScore)
    /\ (FracLt(Zero, diff.similarity) /\ FracLt(diff.diffScore, One))
         <=> HasCheapPart(Alignment)

C4_Witness ==
  /\ diff.called
  /\ goldenWords # outputWords
  /\ HasCommonWord
  /\ \E k \in 1..Len(Alignment) : Alignment[k].operation = REPLACE
  /\ \E k \in 1..Len(Alignment) : Alignment[k].operation = EQUAL
  /\ FracLt(Zero, diff.similarity) /\ FracLt(diff.similarity, One)

\* C5: against a candidate without words a reference of n >= 1 words gives
\* removed = n, added = 0, modified = 0 and similarity 0; a reference
\* without words against a candidate of n >= 1 words gives added = n and
\* removed = 0; neither case has a REPLACE.
C5_OneSideEmpty ==
  /\ (diff.called /\ NumWords(output) = 0 /\ NumWords(golden) >= 1) =>
       /\ diff.changes = [added |-> 0, removed |-> NumWords(golden),
                          modified |-> 0]
       /\ FracEq(diff.similarity, Zero)
  /\ (diff.called /\ NumWords(golden) = 0 /\ NumWords(output) >= 1) =>
       /\ diff.changes = [added |-> NumWords(output), removed |-> 0,
                          modified |-> 0]

C5_Witness ==
  /\ diff.called
  /\ output # <<>>
  /\ NumWords(output) = 0
  /\ NumWords(golden) = 2
  /\ diff.changes.removed = 2

-----------------------------------------------------------------------------
(* The texts the JSON functions are called on                              *)

MaxArrayLen == 2

ObjIdName == JObj(<<Prop(IdKey, JNum(1)), Prop(NameKey, JStr(<<"a">>))>>)
ObjZeroId == JObj(<<Prop(IdKey, JNum(0)), Prop(NameKey, JStr(<<"2">>))>>)
ObjId == JObj(<<Prop(IdKey, JNum(2))>>)
ObjPlain == JObj(<<Prop(<<"b">>, JNum(1)), Prop(<<"a">>, JNum(2))>>)
ObjNested ==
  JObj(<<Prop(<<"z">>, JObj(<<Prop(<<"y">>, JNum(2)), Prop(<<"x">>, JNum(1))>>)),
         Prop(<<"a">>, JNum(1))>>)

Elements == {ObjIdName, ObjZeroId, ObjId, ObjPlain, JNull, JNum(1)}

Arrays == {JArr(elems) : elems \in UNION {[1..n -> Elements] : n \in 0..MaxArrayLen}}

\* Values that are falsy, their truthy counterparts, the empty object, an
\* object with the key of an array index and an object with a key that
\* every object inherits.
Primitives == {JNum(0), JBool(FALSE), JBool(TRUE), JStr(<<>>), JStr(<<"x">>)}
ObjIndexed == JObj(<<Prop(<<"0">>, JNum(1))>>)
ObjInherited == JObj(<<Prop(<<"a">>, JNum(2)), Prop(ConstructorKey, JNum(1))>>)

\* An object with an array under one key, the same with a shorter array,
\* the same with another leaf inside an element of the array, and an object
\* that shares one key of two with ObjPlain.
ObjWithArray ==
  JObj(<<Prop(<<"a">>, JNum(1)), Prop(<<"a", "r", "r">>, JArr(<<JNum(1), ObjId>>))>>)
ObjShorterArray ==
  JObj(<<Prop(<<"a">>, JNum(1)), Prop(<<"a", "r", "r">>, JArr(<<JNum(1)>>))>>)
ObjOtherLeaf ==
  JObj(<<Prop(<<"a">>, JNum(1)),
         Prop(<<"a", "r", "r">>, JArr(<<JNum(1), JObj(<<Prop(IdKey, JNum(1))>>)>>))>>)
ObjOtherKey == JObj(<<Prop(<<"a">>, JNum(2)), Prop(<<"c">>, JNum(1))>>)

\* Two arrays of six numbers that differ in the last one (five of six
\* pairs match, more than the threshold of the array diff), and arrays that
\* hold them next to a number.
SixOnes == JArr([i \in 1..6 |-> JNum(1)])
FiveOnes == JArr([i \in 1..6 |-> IF i = 6 THEN JNum(2) ELSE JNum(1)])
ArrSimilar == JArr(<<SixOnes, JNum(1)>>)
ArrSimilarChanged == JArr(<<FiveOnes, JNum(1)>>)
ArrSimilarMoved == JArr(<<JNum(1), FiveOnes>>)
ArrSimilarLonger == JArr(<<JNum(1), FiveOnes, JNum(1)>>)

GoldenTrees ==
  Arrays \cup Elements \cup Primitives
    \cup {ObjNested, JObj(<<>>), ObjIndexed, ObjInherited, ObjWithArray,
          ArrSimilar}

\* The text of a tree as the inputs are written: one line, a space after
\* each colon and each comma.
RECURSIVE Render(_)
Render(x) ==
  CASE x.k = "arr" ->
         <<"[">> \o Join([i \in 1..Len(x.items) |-> Render(x.items[i])], <<",", SP>>)
                 \o <<"]">>
    [] x.k = "obj" ->
         <<"{">> \o Join([i \in 1..Len(x.props) |->
                            <<QT>> \o x.props[i].key \o <<QT, ":", SP>>
                              \o Render(x.props[i].val)], <<",", SP>>)
                 \o <<"}">>
    [] OTHER -> Stringify(x, 0)

Perms(n) == {f \in [1..n -> 1..n] : \A i, j \in 1..n : f[i] = f[j] => i = j}

\* The sequences that take their i-th element from the i-th set.
Choices(sets) ==
  {c \in [1..Len(sets) -> UNION {sets[i] : i \in 1..Len(sets)}] :
     \A i \in 1..Len(sets) : c[i] \in sets[i]}

\* The trees that are x with the keys of its objects written in any order.
RECURSIVE KeyOrders(_)
KeyOrders(x) ==
  CASE x.k = "obj" ->
         {JObj([i \in 1..Len(x.props) |-> Prop(x.props[f[i]].key, c[f[i]])]) :
            f \in Perms(Len(x.props)),
            c \in Choices([i \in 1..Len(x.props) |-> KeyOrders(x.props[i].val)])}
    [] x.k = "arr" ->
         {JArr(c) : c \in Choices([i \in 1..Len(x.items) |-> KeyOrders(x.items[i])])}
    [] OTHER -> {x}

\* The arrays that are x with its elements in any order.
ElementOrders(x) ==
  IF x.k = "arr"
  THEN {JArr([i \in 1..Len(x.items) |-> x.items[f[i]]]) : f \in Perms(Len(x.items))}
  ELSE {x}

Wrappers == {"json fence", "fence", "backticks"}

Wrap(text, wrapper) ==
  CASE wrapper = "json fence" ->
         Fence \o <<"j", "s", "o", "n", NL>> \o text \o <<NL>> \o Fence
    [] wrapper = "fence" -> Fence \o <<NL>> \o text \o <<NL>> \o Fence
    [] wrapper = "backticks" -> <<BT>> \o text \o <<BT>>

\* A text cut off before its last character
Truncate(text) == SubSeq(text, 1, Len(text) - 1)

\* An object with the key length and the length of the empty array.
ObjLength == JObj(<<Prop(LengthKey, JNum(0))>>)

ProbeTrees ==
  {JArr(<<JNum(1)>>), ObjPlain, JObj(<<>>), ObjIndexed, JStr(<<"x">>),
   ObjShorterArray, ObjOtherLeaf, ObjOtherKey,
   ArrSimilarChanged, ArrSimilarMoved, ArrSimilarLonger, ObjLength}

JsonOutputTexts(x) ==
  {Render(y) : y \in KeyOrders(x) \cup ElementOrders(x) \cup ProbeTrees}
    \cup {Wrap(Render(x), w) : w \in Wrappers}
    \cup {JSONstringify(x), Truncate(Render(x))}

-----------------------------------------------------------------------------
(* Calls of the JSON functions                                             *)

InitJson ==
  /\ \E x \in GoldenTrees :
       \/ golden = Render(x) /\ output \in JsonOutputTexts(x)
       \/ golden = Truncate(Render(x))
            /\ output \in {Render(x), Truncate(Render(x))}
  /\ diff = NotCalled
  /\ lineDiff = NotCalled
  /\ normGolden = NotCalled
  /\ normOutput = NotCalled
  /\ normAgain = NotCalled
  /\ jsonDiff = NotCalled
  /\ NoRun

InspectGolden ==
  /\ ~normGolden.called
  /\ normGolden' = normalizeJson(golden)
  /\ UNCHANGED <<runVars, golden, output, diff, lineDiff, normOutput, normAgain, jsonDiff>>

InspectOutput ==
  /\ ~normOutput.called
  /\ normOutput' = normalizeJson(output)
  /\ UNCHANGED <<runVars, golden, output, diff, lineDiff, normGolden, normAgain, jsonDiff>>

\* The normalized text of the golden copy, inspected in turn.
InspectAgain ==
  /\ normGolden.called
  /\ ~normAgain.called
  /\ normAgain' = normalizeJson(normGolden.normalized)
  /\ UNCHANGED <<runVars, golden, output, diff, lineDiff, normGolden, normOutput, jsonDiff>>

CallCalculateJsonDiff ==
  /\ ~jsonDiff.called
  /\ jsonDiff' = calculateJsonDiff(golden, output)
  /\ UNCHANGED <<runVars, golden, output, diff, lineDiff, normGolden, normOutput, normAgain>>

NextJson == InspectGolden \/ InspectOutput \/ InspectAgain \/ CallCalculateJsonDiff

SpecJson == InitJson /\ [][NextJson]_vars

-----------------------------------------------------------------------------
(* Claims about the normalisation of JSON (under SpecJson)                 *)

goldenTree == JSONparse(Trim(golden))
outputTree == JSONparse(Trim(output))

\* An element the array sort of normalizeJsonObject looks for in front.
Sortable(x) ==
  /\ x.k = "obj"
  /\ HasOwnKey(x, IdKey) \/ HasOwnKey(x, NameKey) \/ HasOwnKey(x, KeyKey)

\* y holds the elements of x, each as often as x does.
IsReordering(x, y) ==
  /\ x.k = "arr" /\ y.k = "arr"
  /\ Len(x.items) = Len(y.items)
  /\ \E f \in Perms(Len(x.items)) : \A i \in 1..Len(x.items) : y.items[i] = x.items[f[i]]

RECURSIVE SameUpToKeyOrder(_, _)
SameUpToKeyOrder(x, y) ==
  CASE x.k = "obj" /\ y.k = "obj" ->
         /\ Len(x.props) = Len(y.props)
         /\ \A i \in 1..Len(x.props) :
              /\ HasOwnKey(y, x.props[i].key)
              /\ SameUpToKeyOrder(x.props[i].val, GetKey(y, x.props[i].key))
    [] x.k = "arr" /\ y.k = "arr" ->
         /\ Len(x.items) = Len(y.items)
         /\ \A i \in 1..Len(x.items) : SameUpToKeyOrder(x.items[i], y.items[i])
    [] OTHER -> x = y

RECURSIVE KeysSorted(_)
KeysSorted(x) ==
  CASE x.k = "obj" ->
         /\ \A i \in 1..Len(x.props) : KeysSorted(x.props[i].val)
         /\ \A i \in 2..Len(x.props) :
              CompareStrings(x.props[i - 1].key, x.props[i].key, CodeUnits) < 0
    [] x.k = "arr" -> \A i \in 1..Len(x.items) : KeysSorted(x.items[i])
    [] OTHER -> TRUE

IsOne(x) == ~IsNaN(x) /\ FracEq(x, One)

\* C7: two JSON texts that differ only in the order of the keys of their
\* objects, at any depth, get the same normalizeJson result - the same
\* normalized text and the same tree, its keys sorted - and calculateJsonDiff
\* gives them similarity 1.
C7_KeyOrderInvariant ==
  (/\ normGolden.called /\ normOutput.called /\ jsonDiff.called
   /\ goldenTree.ok /\ outputTree.ok
   /\ goldenTree.val # outputTree.val
   /\ SameUpToKeyOrder(goldenTree.val, outputTree.val)) =>
    /\ normGolden.normalized = normOutput.normalized
    /\ normGolden.error = NoError
    /\ normGolden.parsed = normOutput.parsed
    /\ KeysSorted(normGolden.parsed)
    /\ IsOne(jsonDiff.similarity)

\* Every element of the array x is an object with an id.
AllHaveId(x) ==
  /\ x.k = "arr"
  /\ \A i \in 1..Len(x.items) : x.items[i].k = "obj" /\ HasOwnKey(x.items[i], IdKey)

\* The elements of x stand in the order of their ids, compared as strings.
OrderedById(x) ==
  /\ x.k = "arr"
  /\ \A i \in 2..Len(x.items) :
       localeCompare(ToStringJS(GetKey(x.items[i - 1], IdKey)),
                     ToStringJS(GetKey(x.items[i], IdKey))) <= 0

\* C8: two arrays of objects that all carry an id, holding the same
\* elements in any two orders, get the same normalizeJson result, ordered by
\* id, and calculateJsonDiff gives them similarity 1.
C8_ElementOrderInvariant ==
  (/\ normGolden.called /\ normOutput.called /\ jsonDiff.called
   /\ goldenTree.ok /\ outputTree.ok
   /\ AllHaveId(goldenTree.val)
   /\ IsReordering(goldenTree.val, outputTree.val)) =>
    /\ normGolden.normalized = normOutput.normalized
    /\ OrderedById(normGolden.parsed)
    /\ IsOne(jsonDiff.similarity)

\* C9: normalizeJsonObject on an array.  When the first element is a
\* non-null object with an id, a name or a key, the result holds the
\* (normalized) elements in the order of their sort keys compared as
\* strings; in every other case it holds them in their original order.
C9_ArrayOrder ==
  (normGolden.called /\ goldenTree.ok /\ goldenTree.val.k = "arr") =>
    LET elems == [i \in 1..Len(goldenTree.val.items) |->
                    normalizeJsonObject(goldenTree.val.items[i])]
        result == normGolden.parsed
    IN  /\ normGolden.error = NoError
        /\ result.k = "arr"
        /\ IF elems # <<>> /\ Sortable(elems[1])
           THEN /\ IsReordering(JArr(elems), result)
                /\ \A i \in 2..Len(result.items) :
                     localeCompare(SortKey(result.items[i - 1]),
                                   SortKey(result.items[i])) <= 0
           ELSE result.items = elems

\* C10: a markdown wrapper is transparent.  For a golden text s that is
\* valid JSON and an output that is s in a json fence, a plain fence or
\* single backticks, isValidJson accepts the output, and normalizeJson of
\* the output returns no error and the normalized text of normalizeJson(s).
C10_FenceTransparent ==
  (/\ normGolden.called /\ normOutput.called /\ jsonDiff.called
   /\ goldenTree.ok
   /\ \E w \in Wrappers : output = Wrap(golden, w)) =>
    /\ jsonDiff.isValidJson.output
    /\ normOutput.error = NoError
    /\ normOutput.normalized = normGolden.normalized

-----------------------------------------------------------------------------
(* Claims about calculateJsonDiff (under SpecJson)                         *)

IsZero(x) == ~IsNaN(x) /\ FracEq(x, Zero)

\* C11: a text that isValidJson accepts, compared with itself, gets
\* similarity 1, diffScore 0, both validity flags true and no additions and
\* no removals.
C11_IdenticalJson ==
  (jsonDiff.called /\ output = golden /\ isValidJson(golden)) =>
    /\ ~jsonDiff.threw
    /\ IsOne(jsonDiff.similarity)
    /\ IsZero(jsonDiff.diffScore)
    /\ jsonDiff.isValidJson = [golden |-> TRUE, output |-> TRUE]
    /\ jsonDiff.changes.additions = 0
    /\ jsonDiff.changes.removals = 0

\* The count of matching pairs the contract of calculateJsonDiff describes:
\* a pair of different types or with one null counts 0 of 1, a pair of
\* primitives 1 of 1 if equal and 0 of 1 otherwise, arrays position by
\* position with 0 of 1 for each extra element, objects key by key with
\* 0 of 1 for each key only one of them has.  A pair of empty arrays or of
\* empty objects is an equal pair.
RECURSIVE PairCount(_, _)
PairCount(a, b) ==
  CASE a.k # b.k -> Count(0, 1)
    [] a.k = b.k /\ a.k \notin {"arr", "obj"} -> Count(IF a = b THEN 1 ELSE 0, 1)
    [] a.k = "arr" /\ b.k = "arr" ->
         IF Len(a.items) = 0 /\ Len(b.items) = 0
         THEN Count(1, 1)
         ELSE LET counts == [i \in 1..Min(Len(a.items), Len(b.items)) |->
                               PairCount(a.items[i], b.items[i])]
              IN  Count(SumMatches(counts),
                        SumTotal(counts) + Max(Len(a.items), Len(b.items))
                                         - Min(Len(a.items), Len(b.items)))
    [] a.k = "obj" /\ b.k = "obj" ->
         IF Len(a.props) = 0 /\ Len(b.props) = 0
         THEN Count(1, 1)
         ELSE LET keys == {a.props[i].key : i \in 1..Len(a.props)}
                            \cup {b.props[i].key : i \in 1..Len(b.props)}
                  count(key) ==
                    IF HasOwnKey(a, key) /\ HasOwnKey(b, key)
                    THEN PairCount(GetKey(a, key), GetKey(b, key))
                    ELSE Count(0, 1)
                  RECURSIVE Sum(_)
                  Sum(ks) ==
                    IF ks = {} THEN Count(0, 0)
                    ELSE LET key == CHOOSE key \in ks : TRUE
                             rest == Sum(ks \ {key})
                         IN  Count(count(key).matches + rest.matches,
                                   count(key).total + rest.total)
              IN  Sum(keys)

\* Both texts are valid JSON and every function was called on them.
BothValid ==
  /\ normGolden.called /\ normOutput.called /\ jsonDiff.called
  /\ isValidJson(golden) /\ isValidJson(output)

\* The similarity of the contract for the canonical trees a and b.
PairSimilarity(a, b) ==
  IF deepEqual(a, b) THEN One
  ELSE Frac(PairCount(a, b).matches, PairCount(a, b).total)

\* C12: when both texts are valid JSON, similarity is 1 if the canonical
\* trees are deepEqual and otherwise matches / total of the count of matching
\* pairs over the canonical trees, and diffScore is 1 - similarity.
C12_StructuralScore ==
  BothValid =>
    /\ ~jsonDiff.threw
    /\ normGolden.error = NoError /\ normOutput.error = NoError
    /\ ~IsNaN(jsonDiff.similarity)
    /\ FracEq(jsonDiff.similarity,
              PairSimilarity(normGolden.parsed, normOutput.parsed))
    /\ FracEq(jsonDiff.diffScore, FracSub(One, jsonDiff.similarity))

\* The objects a and b have the same keys and differ only under keys that
\* hold an array in both.
DifferOnlyInArrays(a, b) ==
  /\ a.k = "obj" /\ b.k = "obj"
  /\ a # b
  /\ {a.props[i].key : i \in 1..Len(a.props)} = {b.props[i].key : i \in 1..Len(b.props)}
  /\ \A i \in 1..Len(a.props) :
       \/ GetKey(b, a.props[i].key) = a.props[i].val
       \/ a.props[i].val.k = "arr" /\ GetKey(b, a.props[i].key).k = "arr"

\* The number of keys of a under which b holds the same value.
EqualKeys(a, b) ==
  Cardinality({i \in 1..Len(a.props) : GetKey(b, a.props[i].key) = a.props[i].val})

\* C13: two valid JSON objects that differ only inside an array-valued key
\* get similarity = (top-level keys with equal values) / (top-level keys):
\* the differing array counts as one pair that does not match.
C13_ArrayKeyIsOnePair ==
  (BothValid /\ ~jsonDiff.threw
     /\ DifferOnlyInArrays(normGolden.parsed, normOutput.parsed)) =>
    /\ ~IsNaN(jsonDiff.similarity)
    /\ FracEq(jsonDiff.similarity,
              Frac(EqualKeys(normGolden.parsed, normOutput.parsed),
                   Len(normGolden.parsed.props)))
    /\ FracEq(jsonDiff.diffScore, FracSub(One, jsonDiff.similarity))

\* C14: calculateJsonDiff has exactly three outcomes.  Golden not valid:
\* flags {false, false}, similarity and diffScore NaN.  Golden valid and
\* output not valid: flags {true, false}, similarity and diffScore NaN and
\* parseErrors.output the message of the parser.  Both valid: flags
\* {true, true} and a similarity that is a number in [0, 1].  The flags
\* {false, true} are never reported.
C14_ThreeOutcomes ==
  jsonDiff.called =>
    /\ ~jsonDiff.threw
    /\ jsonDiff.isValidJson # [golden |-> FALSE, output |-> TRUE]
    /\ IsNaN(jsonDiff.similarity) <=> ~(isValidJson(golden) /\ isValidJson(output))
    /\ CASE ~isValidJson(golden) ->
               /\ jsonDiff.isValidJson = [golden |-> FALSE, output |-> FALSE]
               /\ IsNaN(jsonDiff.similarity) /\ IsNaN(jsonDiff.diffScore)
         [] isValidJson(golden) /\ ~isValidJson(output) ->
               /\ jsonDiff.isValidJson = [golden |-> TRUE, output |-> FALSE]
               /\ IsNaN(jsonDiff.similarity) /\ IsNaN(jsonDiff.diffScore)
               /\ jsonDiff.parseErrors.output = SyntaxError
         [] OTHER ->
               /\ jsonDiff.isValidJson = [golden |-> TRUE, output |-> TRUE]
               /\ ~IsNaN(jsonDiff.similarity)
               /\ FracLe(Zero, jsonDiff.similarity)
               /\ FracLe(jsonDiff.similarity, One)

\* C15: for a golden text that is valid JSON and an output that is not,
\* calculateJsonDiff reports the flags {true, false}, a parse error of the
\* output and a similarity that compares as less than 1.
C15_InvalidOutput ==
  (jsonDiff.called /\ isValidJson(golden) /\ ~isValidJson(output)) =>
    /\ ~jsonDiff.threw
    /\ jsonDiff.isValidJson = [golden |-> TRUE, output |-> FALSE]
    /\ jsonDiff.parseErrors.output \notin {NoError, ""}
    /\ ~IsNaN(jsonDiff.similarity) /\ FracLt(jsonDiff.similarity, One)

\* The validity flags with golden and output exchanged.
SwapFlags(flags) == [golden |-> flags.output, output |-> flags.golden]

\* C16: the validity flags of calculateJsonDiff(output, golden) are those of
\* calculateJsonDiff(golden, output) with golden and output exchanged, and
\* when exactly one text is not valid JSON, exactly the flag of that text is
\* false.
C16_SymmetricValidity ==
  (jsonDiff.called /\ ~jsonDiff.threw /\ ~calculateJsonDiff(output, golden).threw) =>
    /\ calculateJsonDiff(output, golden).isValidJson = SwapFlags(jsonDiff.isValidJson)
    /\ (isValidJson(golden) # isValidJson(output)) =>
          jsonDiff.isValidJson =
            [golden |-> isValidJson(golden), output |-> isValidJson(output)]

\* C17: calculateJsonDiff returns a result for every pair of texts and
\* normalizeJson for every text: neither throws.
C17_NeverThrows ==
  /\ jsonDiff.called => ~jsonDiff.threw
  /\ normGolden.called => normGolden.error \in {NoError, SyntaxError, TypeError}
  /\ normOutput.called => normOutput.error \in {NoError, SyntaxError, TypeError}

\* C18: two valid JSON texts whose canonical trees have different JSON
\* types - an array and an object included, empty or not - are not
\* deepEqual, the granular count gives them 0 matches of 1, and their
\* similarity is less than 1.
C18_TypeMismatch ==
  (/\ BothValid /\ ~jsonDiff.threw
   /\ normGolden.error = NoError /\ normOutput.error = NoError
   /\ normGolden.parsed.k # normOutput.parsed.k) =>
    /\ ~deepEqual(normGolden.parsed, normOutput.parsed)
    /\ calculateGranularSimilarity(normGolden.parsed, normOutput.parsed) = Count(0, 1)
    /\ ~IsNaN(jsonDiff.similarity) /\ FracLt(jsonDiff.similarity, One)

-----------------------------------------------------------------------------
(* Claims about the line diff and the cost of the word diff (under         *)
(* SpecText)                                                               *)

goldenLines == SplitLines(golden)
outputLines == SplitLines(output)

\* The two texts have the same number of lines, two or more, and differ in
\* exactly one of them.
OneLineChanged ==
  /\ Len(goldenLines) = Len(outputLines)
  /\ Len(goldenLines) >= 2
  /\ Cardinality({k \in 1..Len(goldenLines) : goldenLines[k] # outputLines[k]}) = 1

\* C19: calculateLineDiff reports the replaced lines in changes.modified;
\* when exactly one line of a text of several lines is changed and the
\* others are identical, changes.modified is 1.
C19_ModifiedLines ==
  (lineDiff.called /\ OneLineChanged) => lineDiff.changes.modified = 1

\* The cost of pairing the words g and o, in half units: 0 for equal words,
\* 0.5 for words closer than the threshold, 1 otherwise.
PairCost(g, o) ==
  IF g = o THEN 0
  ELSE IF FracLt(WordThreshold, calculateWordSimilarity(g, o)) THEN 1 ELSE 2

\* The least costs, in half units, of aligning a prefix of gold that ends
\* with the word g with every prefix of out, from the costs prev of the
\* prefix without g: g is deleted (1), the last word of out is inserted (1),
\* or the two are paired.
RECURSIVE MinEditRow(_, _, _, _)
MinEditRow(prev, g, out, row) ==
  IF Len(row) = Len(out) + 1 THEN row
  ELSE MinEditRow(prev, g, out,
         Append(row, Min3(prev[Len(row) + 1] + 2,
                          row[Len(row)] + 2,
                          prev[Len(row)] + PairCost(g, out[Len(row)]))))

\* The least cost, in half units, of an alignment of the word sequences gold
\* and out: each word of gold is deleted (1) or paired with a later word of
\* out than the word before it, each unpaired word of out is inserted (1).
RECURSIVE MinEditCosts(_, _, _)
MinEditCosts(prev, gold, out) ==
  IF gold = <<>> THEN prev
  ELSE MinEditCosts(MinEditRow(prev, Head(gold), out, <<prev[1] + 2>>),
                    Tail(gold), out)

MinEditCost(gold, out) ==
  MinEditCosts([j \in 1..(Len(out) + 1) |-> 2 * (j - 1)], gold, out)[Len(out) + 1]

\* The cost, in half units, charged for a part of the alignment.
Charge(part) ==
  CASE part.operation = EQUAL -> 0
    [] part.operation \in {INSERT, DELETE} -> 2
    [] part.operation = REPLACE -> PairCost(part.goldenText, part.outputText)

RECURSIVE TotalCharge(_)
TotalCharge(diffParts) ==
  IF diffParts = <<>> THEN 0
  ELSE Charge(Head(diffParts)) + TotalCharge(Tail(diffParts))

\* The alignment is charged the least cost, and diffScore is that cost
\* divided by the number of its parts.
IsLeastCost(alignment, least) ==
  /\ TotalCharge(alignment) = least
  /\ Len(alignment) > 0 =>
       FracEq(diff.diffScore, Frac(least, 2 * Len(alignment)))

\* C20: the cost charged by the alignment of calculateDiff - 1 per INSERT
\* and per DELETE, 0.5 per REPLACE of two words closer than the threshold,
\* 1 per other REPLACE, 0 per EQUAL - is the least cost of any alignment of
\* the two word sequences, and diffScore is that cost divided by the number
\* of parts of the alignment.
C20_MinimumCost ==
  diff.called => IsLeastCost(Alignment, MinEditCost(goldenWords, outputWords))

\* A word diff in which a word was replaced by one closer than the
\* threshold next to a deletion or an insertion, although pairing the words
\* differently would have been possible.
C20_Witness ==
  /\ diff.called
  /\ \E k \in 1..Len(Alignment) :
       Alignment[k].operation = REPLACE /\ Charge(Alignment[k]) = 1
  /\ \E k \in 1..Len(Alignment) : Alignment[k].operation \in {INSERT, DELETE}
  /\ TotalCharge(Alignment) = MinEditCost(goldenWords, outputWords)
  /\ FracEq(diff.diffScore, Frac(TotalCharge(Alignment), 2 * Len(Alignment)))

\* C21: the word diff is symmetric.  calculateDiff(output, golden) has the
\* similarity of calculateDiff(golden, output), its added and removed
\* counts exchanged and the same modified count.
C21_Symmetric ==
  diff.called =>
    /\ FracEq(calculateDiff(output, golden).similarity, diff.similarity)
    /\ calculateDiff(output, golden).changes =
         [added |-> diff.changes.removed, removed |-> diff.changes.added,
          modified |-> diff.changes.modified]

-----------------------------------------------------------------------------
(* Further claims about the JSON functions (under SpecJson)                *)

\* The result norm of normalizeJson(text) agrees with isValidJson(text).
Agrees(text, norm) ==
  /\ (norm.error # NoError) <=> ~isValidJson(text)
  /\ norm.error # NoError => norm.parsed = JNull /\ norm.normalized = text
  /\ norm.error = NoError =>
       /\ norm.parsed = normalizeJsonObject(JSONparse(Trim(norm.normalized)).val)
       /\ norm.normalized = JSONstringify(norm.parsed)

\* C22: normalizeJson and isValidJson agree.  normalizeJson returns an error,
\* a null tree and the original text exactly for the texts isValidJson
\* rejects, and no error, the canonical tree and its pretty-printed text for
\* the texts isValidJson accepts.
C22_ValidityAgrees ==
  /\ normGolden.called => Agrees(golden, normGolden)
  /\ normOutput.called => Agrees(output, normOutput)

\* The canonical trees of both texts are arrays and calculateJsonDiff
\* returned.
BothArrays ==
  /\ normGolden.called /\ normOutput.called /\ jsonDiff.called
  /\ ~jsonDiff.threw
  /\ normGolden.error = NoError /\ normOutput.error = NoError
  /\ normGolden.parsed.k = "arr" /\ normOutput.parsed.k = "arr"

\* The edit script of the two canonical arrays.
Script == calculateLCSArrayDiff(normGolden.parsed.items, normOutput.parsed.items)

\* The operations of the edit script ops that carry an oldIndex, and those
\* that carry a newIndex.
OldOps(ops) == {n \in 1..Len(ops) : ops[n].type \in {"equal", "removed"}}
NewOps(ops) == {n \in 1..Len(ops) : ops[n].type \in {"equal", "added"}}

\* The edit script ops is well formed for a reference of m elements and a
\* candidate of n.
WellFormed(ops, m, n) ==
  /\ \A k \in 1..Len(ops) : ops[k].type \in {"equal", "added", "removed"}
  /\ \A old \in 0..(m - 1) :
       Cardinality({k \in OldOps(ops) : ops[k].oldIndex = old}) = 1
  /\ \A new \in 0..(n - 1) :
       Cardinality({k \in NewOps(ops) : ops[k].newIndex = new}) = 1
  /\ \A k \in OldOps(ops) : ops[k].oldIndex \in 0..(m - 1)
  /\ \A k \in NewOps(ops) : ops[k].newIndex \in 0..(n - 1)
  /\ \A k, l \in OldOps(ops) : k < l => ops[k].oldIndex < ops[l].oldIndex
  /\ \A k, l \in NewOps(ops) : k < l => ops[k].newIndex < ops[l].newIndex
  /\ CountType(ops, "added") - CountType(ops, "removed") = n - m
  /\ n > m => CountType(ops, "added") > 0
  /\ n < m => CountType(ops, "removed") > 0

\* The edit script ops is well formed and calculateJsonDiff reports its
\* additions and removals.
IsReported(ops, m, n) ==
  /\ WellFormed(ops, m, n)
  /\ jsonDiff.changes.additions = CountType(ops, "added")
  /\ jsonDiff.changes.removals = CountType(ops, "removed")

\* C23: calculateLCSArrayDiff returns a well-formed edit script.  Every
\* operation is equal, added or removed; every index of the reference is the
\* oldIndex of exactly one equal or removed operation and every index of the
\* candidate the newIndex of exactly one equal or added operation, in
\* increasing order; added minus removed is the difference of the lengths,
\* and calculateJsonDiff reports these numbers as additions and removals.
C23_WellFormedScript ==
  BothArrays =>
    IsReported(Script, Len(normGolden.parsed.items), Len(normOutput.parsed.items))

\* Two arrays of different lengths, with an element of the one paired with
\* a similar element of the other, were compared.
C23_Witness ==
  /\ BothArrays
  /\ Len(normOutput.parsed.items) > Len(normGolden.parsed.items)
  /\ Len(normGolden.parsed.items) >= 2
  /\ CountType(Script, "added") > 0
  /\ CountType(Script, "equal") > 0
  /\ jsonDiff.changes.additions > 0

\* The length of the longest common subsequence of the arrays a and b,
\* their elements compared with deepEqual.
RECURSIVE LongestCommon(_, _)
LongestCommon(a, b) ==
  IF a = <<>> \/ b = <<>> THEN 0
  ELSE Max(Max(LongestCommon(Tail(a), b), LongestCommon(a, Tail(b))),
           IF deepEqual(Head(a), Head(b))
           THEN LongestCommon(Tail(a), Tail(b)) + 1
           ELSE 0)

\* The edit script ops of arrays of m and n elements with a longest common
\* subsequence of the length common keeps that many elements.
KeepsCommon(ops, common, m, n) ==
  /\ CountType(ops, "equal") >= common
  /\ CountType(ops, "removed") <= m - common
  /\ CountType(ops, "added") <= n - common

\* C24: the edit script of calculateLCSArrayDiff has at least as many equal
\* operations as the longest common subsequence of the two arrays is long,
\* so it removes and adds no more elements than lie outside of it.
C24_KeepsCommonElements ==
  BothArrays =>
    KeepsCommon(Script,
                LongestCommon(normGolden.parsed.items, normOutput.parsed.items),
                Len(normGolden.parsed.items), Len(normOutput.parsed.items))

\* An edit script with an equal operation on two elements that are similar
\* and not equal, next to one on two equal elements.
C24_Witness ==
  /\ BothArrays
  /\ \E k \in 1..Len(Script) :
       /\ Script[k].type = "equal"
       /\ ~deepEqual(normGolden.parsed.items[Script[k].oldIndex + 1],
                     normOutput.parsed.items[Script[k].newIndex + 1])
  /\ LongestCommon(normGolden.parsed.items, normOutput.parsed.items) >= 1
  /\ CountType(Script, "added") + CountType(Script, "removed") > 0

\* The JSON value x holds no array, at any depth.
RECURSIVE NoArrays(_)
NoArrays(x) ==
  CASE x.k = "arr" -> FALSE
    [] x.k = "obj" -> \A i \in 1..Len(x.props) : NoArrays(x.props[i].val)
    [] OTHER -> TRUE

\* C25: for two valid JSON texts without arrays whose canonical trees are
\* not deepEqual, calculateJsonDiff reports at least one change:
\* structuralChanges + additions + removals > 0.
C25_ReportsChange ==
  (/\ BothValid /\ ~jsonDiff.threw
   /\ normGolden.error = NoError /\ normOutput.error = NoError
   /\ NoArrays(normGolden.parsed) /\ NoArrays(normOutput.parsed)
   /\ ~deepEqual(normGolden.parsed, normOutput.parsed)) =>
    jsonDiff.changes.structuralChanges + jsonDiff.changes.additions
      + jsonDiff.changes.removals > 0

-----------------------------------------------------------------------------
(* Further claims about the line diff (under SpecText)                     *)

\* The rows of the line diff of the two texts.
LineParts == computeLineDiff(goldenLines, outputLines)

\* The rows n and n + 1 are a delete row with the line old and an insert
\* row with the line new.
DeleteThenInsert(parts, n, old, new) ==
  /\ n + 1 <= Len(parts)
  /\ parts[n].operation = DELETE /\ parts[n].text = old
  /\ parts[n + 1].operation = INSERT /\ parts[n + 1].text = new

\* C26: a reference line replaced by a different candidate line gives two
\* consecutive rows and no combined row: a delete row with the old line,
\* immediately followed by an insert row with the new line.
C26_DeleteThenInsert ==
  (lineDiff.called /\ OneLineChanged) =>
    /\ \A n \in 1..Len(LineParts) : LineParts[n].operation # REPLACE
    /\ \A k \in 1..Len(goldenLines) :
         goldenLines[k] # outputLines[k] =>
           \E n \in 1..Len(LineParts) :
             DeleteThenInsert(LineParts, n, goldenLines[k], outputLines[k])

-----------------------------------------------------------------------------
(* runComparison (parallel version) and runSingleModel                     *)
(*                                                                         *)
(* A promise is pending, fulfilled with a value or rejected with a reason. *)
(* tasks[i] is the promise of runSingleModel for selectedModels[i],        *)
(* settled[i] the promise of its race against the timer of 60 seconds,     *)
(* processedResults the value runComparison resolves with.                 *)

\* Bound: the largest number of selected models.
MaxModels == 2

PositiveInfinity == Frac(1, 0)

Pending == [status |-> "pending"]
Fulfilled(value) == [status |-> "fulfilled", value |-> value]
Rejected(reason) == [status |-> "rejected", reason |-> reason]

\* The providers runSingleModel has a case for, and the providers and
\* models of the calls: one with a case and one without.
SupportedProviders == {"openai", "anthropic", "google", "xai"}
Providers == {"openai", "custom"}
Models ==
  {[model |-> "m1", provider |-> "openai"], [model |-> "m2", provider |-> "custom"]}

\* The result for a model that failed, with the message after "Error: ".
ErrorResult(modelConfig, message) ==
  [model |-> modelConfig.model, provider |-> modelConfig.provider,
   output |-> <<"Error: ", message>>,
   diffScore |-> PositiveInfinity, error |-> TRUE]

\* The result runSingleModel returns for the text of a model, from the
\* results of the diffs; a diff that throws is caught.
RunResult(modelConfig, goldenCopy, text, diffResult, lineDiffResult, jsonDiffResult) ==
  IF jsonDiffResult.threw
  THEN ErrorResult(modelConfig, TypeError)
  ELSE [model |-> modelConfig.model, provider |-> modelConfig.provider,
        output |-> text,
        diffScore |-> diffResult.diffScore,
        diffHtml |-> diffResult.diffHtml,
        error |-> FALSE,
        lineDiffHtml |-> lineDiffResult.diffHtml,
        jsonDiffHtml |-> jsonDiffResult.diffHtml,
        similarity |-> IF isValidJson(goldenCopy)
                       THEN jsonDiffResult.similarity
                       ELSE diffResult.similarity,
        jsonSimilarity |-> jsonDiffResult.similarity,
        isValidJson |-> jsonDiffResult.isValidJson]

\* runSingleModel up to generateText: the promise it returns at once.
StartTask(modelConfig, keys) ==
  IF ~keys[modelConfig.provider]
  THEN Fulfilled(ErrorResult(modelConfig, "API key not provided"))
  ELSE IF modelConfig.provider \notin SupportedProviders
  THEN Fulfilled(ErrorResult(modelConfig, "Unsupported provider"))
  ELSE Pending

\* runSingleModel after generateText returned text.
FinishTask(modelConfig, goldenCopy, text) ==
  Fulfilled(RunResult(modelConfig, goldenCopy, text,
                      calculateDiff(goldenCopy, text),
                      calculateLineDiff(goldenCopy, text),
                      calculateJsonDiff(goldenCopy, text)))

\* Promise.race([task, timer]) when the task settles: the race takes the
\* value of the task unless the timer has rejected it before.
Race(race, task) == IF race = Pending THEN task ELSE race

\* Two lines of words and two JSON objects with the characters escapeHtml
\* replaces, in a key, in a string, and in an element of an array.
MarkupText ==
  <<"<", "b", ">", SP, "a", "&", "b", NL, "'", "x", "'", SP, QT, "h", "i", QT>>
MarkupTextChanged ==
  <<"<", "i", ">", SP, "a", "&", "b", NL, "h", "i", SP, QT, "h", "i", QT>>
ObjMarkup ==
  JObj(<<Prop(<<"a", "<">>, JStr(<<"&", "'", ">">>)),
         Prop(<<"b">>, JArr(<<JStr(<<"<", "b", ">">>), JNum(1)>>)),
         Prop(<<"c", "'">>, JNum(1))>>)
ObjMarkupChanged ==
  JObj(<<Prop(<<"a", "<">>, JStr(<<"<", "&">>)),
         Prop(<<"b">>, JArr(<<JNum(1), JStr(<<"'", "x", "'">>)>>)),
         Prop(<<"d", "&">>, JStr(<<">">>))>>)

\* The golden copies: a JSON object, a text that is not JSON, an object
\* with a key that every object inherits, and the two texts with the
\* characters of markup; the larger objects are written as
\* JSON.stringify(x, null, 2) writes them.
RunGoldens ==
  {Render(ObjId), <<"h", "i">>, JSONstringify(ObjInherited), MarkupText,
   JSONstringify(ObjMarkup)}

\* The texts a model may answer for a golden copy: the JSON object, the
\* same cut off and a text that is not JSON, or the changed text for a
\* golden copy with the characters of markup.
RunTexts(goldenCopy) ==
  IF goldenCopy = MarkupText THEN {MarkupTextChanged}
  ELSE IF goldenCopy = JSONstringify(ObjMarkup)
  THEN {JSONstringify(ObjMarkupChanged)}
  ELSE {Render(ObjId), Truncate(Render(ObjId)), <<"h", "i">>}

\* runComparison up to its await: every task is started and races its
\* timer.
InitRun ==
  /\ golden \in RunGoldens
  /\ output = <<>>
  /\ diff = NotCalled
  /\ lineDiff = NotCalled
  /\ normGolden = NotCalled
  /\ normOutput = NotCalled
  /\ normAgain = NotCalled
  /\ jsonDiff = NotCalled
  /\ selectedModels \in UNION {[1..n -> Models] : n \in 0..MaxModels}
  /\ apiKeys \in [Providers -> BOOLEAN]
  /\ tasks = [i \in 1..Len(selectedModels) |-> StartTask(selectedModels[i], apiKeys)]
  /\ settled = tasks
  /\ processedResults = NotResolved

textVars ==
  <<golden, output, diff, lineDiff, normGolden, normOutput, normAgain, jsonDiff>>

\* generateText of model i returns text.
GenerateTextResolves(i, text) ==
  /\ tasks[i] = Pending
  /\ tasks' = [tasks EXCEPT ![i] = FinishTask(selectedModels[i], golden, text)]
  /\ settled' = [settled EXCEPT ![i] = Race(settled[i], tasks'[i])]
  /\ UNCHANGED <<textVars, selectedModels, apiKeys, processedResults>>

\* generateText of model i throws.
GenerateTextRejects(i) ==
  /\ tasks[i] = Pending
  /\ tasks' = [tasks EXCEPT ![i] =
                 Fulfilled(ErrorResult(selectedModels[i], "request failed"))]
  /\ settled' = [settled EXCEPT ![i] = Race(settled[i], tasks'[i])]
  /\ UNCHANGED <<textVars, selectedModels, apiKeys, processedResults>>

\* The timer of model i fires after 60 seconds.
RequestTimeout(i) ==
  /\ settled[i] = Pending
  /\ settled' = [settled EXCEPT ![i] = Rejected("Request timeout after 60 seconds")]
  /\ UNCHANGED <<textVars, selectedModels, apiKeys, tasks, processedResults>>

\* ProcessResult with a rejected race reported as a success with score 0.
ProcessResultAsSuccess(result, modelConfig) ==
  IF result.status = "fulfilled" THEN result.value
  ELSE [model |-> modelConfig.model, provider |-> modelConfig.provider,
        output |-> <<"Error: ", result.reason>>,
        diffScore |-> Zero, error |-> FALSE]

\* results.map of runComparison: the result of one settled race.
ProcessResult(result, modelConfig) ==
  IF result.status = "fulfilled" THEN result.value
  ELSE ErrorResult(modelConfig, result.reason)

\* Promise.allSettled resolves and runComparison returns.
ProcessResults ==
  /\ processedResults = NotResolved
  /\ \A i \in 1..Len(settled) : settled[i] # Pending
  /\ processedResults' =
       [resolved |-> TRUE,
        value |-> [i \in 1..Len(settled) |->
                     ProcessResult(settled[i], selectedModels[i])]]
  /\ UNCHANGED <<textVars, selectedModels, apiKeys, tasks, settled>>

NextRun ==
  \/ \E i \in 1..Len(selectedModels) :
       \/ \E text \in RunTexts(golden) : GenerateTextResolves(i, text)
       \/ GenerateTextRejects(i)
       \/ RequestTimeout(i)
  \/ ProcessResults

SpecRun == InitRun /\ [][NextRun]_vars

\* The timers fire and the event loop runs what is ready: every race is
\* settled in the end and runComparison returns.
SpecRunFair ==
  /\ SpecRun
  /\ \A i \in 1..MaxModels : WF_vars(i \in 1..Len(selectedModels) /\ RequestTimeout(i))
  /\ WF_vars(ProcessResults)

-----------------------------------------------------------------------------
(* Claims about runComparison and runSingleModel                           *)

\* Model i failed: its API key is missing, its request threw or its race
\* was lost to the timer.
ModelFailed(i) ==
  \/ ~apiKeys[selectedModels[i].provider]
  \/ settled[i] = Fulfilled(ErrorResult(selectedModels[i], "request failed"))
  \/ settled[i].status = "rejected"

\* The value runComparison resolved with has one result per selected model
\* at the index of the model, an error result with diffScore +Infinity for
\* every model that failed, and for every other model the result of
\* runSingleModel for its own text.
OneResultPerModel ==
  processedResults.resolved =>
    /\ Len(processedResults.value) = Len(selectedModels)
    /\ \A i \in 1..Len(selectedModels) :
         /\ processedResults.value[i].model = selectedModels[i].model
         /\ processedResults.value[i].provider = selectedModels[i].provider
         /\ ModelFailed(i) =>
              /\ processedResults.value[i].error
              /\ processedResults.value[i].diffScore = PositiveInfinity
         /\ ~ModelFailed(i) =>
              IF selectedModels[i].provider \notin SupportedProviders
              THEN processedResults.value[i] =
                     ErrorResult(selectedModels[i], "Unsupported provider")
              ELSE \E text \in RunTexts(golden) :
                     FinishTask(selectedModels[i], golden, text)
                       = Fulfilled(processedResults.value[i])

\* C27: runComparison resolves, whatever the order in which the requests
\* complete, with exactly one result per selected model at the index of the
\* model; a model whose request throws, whose API key is missing or which
\* does not complete in 60 seconds is reported with error = true and
\* diffScore = +Infinity and leaves the results of the other models alone.
C27_OneResultPerModel == []OneResultPerModel /\ <>processedResults.resolved

\* runComparison resolved for two models: the first lost its race to the
\* timer, the second returned a text that was compared.
C27_Witness ==
  /\ processedResults.resolved
  /\ Len(selectedModels) = 2
  /\ settled[1].status = "rejected"
  /\ settled[2].status = "fulfilled"
  /\ ~processedResults.value[2].error
  /\ processedResults.value[1].error

\* The result runSingleModel returned for model i, where it returned one
\* for a text.
Compared(i) == tasks[i].status = "fulfilled" /\ ~tasks[i].value.error

\* C28: the caller falls back to the word diff.  Whenever the golden copy or
\* the text of the model is not valid JSON, the similarity of the RunResult
\* is the similarity of calculateDiff, a number in [0, 1] and never NaN.
C28_FallsBackToWordDiff ==
  \A i \in 1..Len(tasks) :
    (/\ Compared(i)
     /\ ~(isValidJson(golden) /\ isValidJson(tasks[i].value.output))) =>
      /\ ~IsNaN(tasks[i].value.similarity)
      /\ tasks[i].value.similarity
           = calculateDiff(golden, tasks[i].value.output).similarity
      /\ FracLe(Zero, tasks[i].value.similarity)
      /\ FracLe(tasks[i].value.similarity, One)

\* A text placed in markup holds none of the characters < > " ' and holds
\* & only where one of the five entities of escapeHtml begins.
EntityAt(text, p) ==
  \E entity \in {AmpEntity, LtEntity, GtEntity, QuotEntity, AposEntity} :
    /\ p + Len(entity) - 1 <= Len(text)
    /\ SubSeq(text, p, p + Len(entity) - 1) = entity

IsEscaped(text) ==
  \A p \in 1..Len(text) :
    /\ text[p] \notin {"<", ">", QT, "'"}
    /\ text[p] = "&" => EntityAt(text, p)

AllEscaped(html) == \A n \in 1..Len(html.texts) : IsEscaped(html.texts[n])

\* C29: in the diffHtml of calculateDiff, calculateLineDiff and
\* calculateJsonDiff that runSingleModel returns for the text of a model,
\* every text placed in the markup is escaped: none of < > " ' is left in
\* it, and every & in it begins an entity.
C29_EscapedEverywhere ==
  \A i \in 1..Len(tasks) :
    Compared(i) =>
      /\ AllEscaped(tasks[i].value.diffHtml)
      /\ AllEscaped(tasks[i].value.lineDiffHtml)
      /\ AllEscaped(tasks[i].value.jsonDiffHtml)

HasEntity(html, entity) ==
  \E n \in 1..Len(html.texts) : \E p \in 1..Len(html.texts[n]) :
    SubSeq(html.texts[n], p, Min(Len(html.texts[n]), p + Len(entity) - 1)) = entity

\* C29 witness: a result whose three pieces of HTML each hold a character
\* that was escaped.
C29_Witness ==
  \E i \in 1..Len(tasks) :
    /\ Compared(i)
    /\ HasEntity(tasks[i].value.diffHtml, LtEntity)
    /\ HasEntity(tasks[i].value.lineDiffHtml, AposEntity)
    /\ HasEntity(tasks[i].value.jsonDiffHtml, AmpEntity)
    /\ HasEntity(tasks[i].value.jsonDiffHtml, QuotEntity)

-----------------------------------------------------------------------------
(* A claim about the similarity of two values (under SpecJson)             *)

\* Both texts were inspected and normalizeJson returned a tree for each.
BothParsed ==
  /\ normGolden.called /\ normOutput.called
  /\ normGolden.error = NoError /\ normOutput.error = NoError

\* A count of calculateGranularSimilarity that can be divided.
InRange(granular) ==
  /\ granular.total >= 1
  /\ 0 <= granular.matches
  /\ granular.matches <= granular.total

\* C30: for the two trees normalizeJson returned,
\* calculateGranularSimilarity counts total >= 1 and 0 <= matches <= total,
\* and calculateObjectSimilarity is 1 if and only if deepEqual is true.
C30_OneIffDeepEqual ==
  BothParsed =>
    /\ InRange(calculateGranularSimilarity(normGolden.parsed, normOutput.parsed))
    /\ IsOne(calculateObjectSimilarity(normGolden.parsed, normOutput.parsed))
         <=> deepEqual(normGolden.parsed, normOutput.parsed)

====
